---- MODULE Spec2Model ----
(***************************************************************************)
(* Model of oar-p2p: the overlay-network planner/synthesiser               *)
(* (machine_generate_configs, src/src/main.rs), the commands `net up`,     *)
(* `net down`, `net show`, `net preview` and `run` that drive it and the   *)
(* remote steps, the fan-out helper for_each (src/src/machine.rs), node    *)
(* detection, job id inference (src/src/context.rs, src/src/oar.rs) and    *)
(* the parsers of the latency matrix, of signals and of address allocation *)
(* policies.                                                               *)
(*                                                                         *)
(* Durations are whole microseconds.  Text lines are records holding the   *)
(* values that the format strings interpolate (decimal formatting of an    *)
(* integer and dotted formatting of an address are injective).  A Rust     *)
(* panic is the terminal program position "panic".  A loop of the source   *)
(* is a recursive operator that runs the loop body over the index range    *)
(* in order, left half before right half.                                  *)
(***************************************************************************)
EXTENDS Integers, Sequences, FiniteSets, TLC

VARIABLES
    cmd,                  \* the subcommand being run: "up", "down", "show", "run", "preview"
    pc,                   \* position of the command
    overflow_checks,      \* build profile: TRUE = arithmetic overflow panics, FALSE = wraps
    matrix,               \* LatencyMatrix {dimension, latencies}
    machines,             \* Vec<Machine> handed to machine_generate_configs
    addr_per_cpu,         \* u32 argument --addr-per-cpu
    addresses,            \* machine_generate_configs: addresses
    configs,              \* machine_generate_configs: configs
    mi,                   \* position of the machine loop (1-based)
    latencies_buckets,    \* latencies_buckets of the last finished iteration
    phase,                \* remote step whose tasks are spawned, or "none"
    tasks,                \* JoinSet / FuturesUnordered of the running step: position -> task state
    node,                 \* Context.node: "frontend", "unknown" or the machine run on
    job_id,               \* Context.job_id: Option<u32>
    frontend_hostname,    \* Context.frontend_hostname: Option<String>
    scheduled,            \* cmd_run: the machines of the containers of the schedule
    procs,                \* the processes the command has spawned, with their exit status
    error,                \* the Err the command or the fan-out returns
    remote,               \* machine -> the overlay state it holds
    limit_env,            \* OAR_P2P_CONCURRENCY_LIMIT: Option<String>
    limit,                \* for_each_with_limit: limit
    sem,                  \* for_each_with_limit: available permits of sem
    futures,              \* for_each_with_limit: position -> state of the future
    results,              \* for_each_with_limit: results (the machine of each entry)
    hostname_file,        \* read_to_string("/etc/hostname"): Option<String>
    hostname_env,         \* std::env::var("HOSTNAME"): Option<String>
    infer_job_id,         \* Context.infer_job_id
    oarstat,              \* what `oarstat -u -J` answers: exit status and stdout
    content,              \* LatencyMatrix::parse: content, the lines of the text
    str,                  \* FromStr::from_str: s, the characters of the string
    ret                   \* the value a parser or Context::job_id has returned

genVars == <<addresses, configs, mi, latencies_buckets>>
inVars == <<cmd, overflow_checks, matrix, machines, addr_per_cpu>>
upVars == <<phase, tasks>>
ctxVars == <<node, job_id, frontend_hostname>>
runVars == <<scheduled, procs, error, remote>>
feVars == <<limit_env, limit, sem, futures, results>>
argVars == <<hostname_file, hostname_env, infer_job_id, oarstat, content, str, ret>>
vars == <<pc, inVars, genVars, upVars, ctxVars, runVars, feVars, argVars>>

Range(f) == {f[x] : x \in DOMAIN f}

-----------------------------------------------------------------------------
(* Bounds of the model *)

MaxMachines == 2
MaxAddrPerCpu == 1
MaxPattern == 3

-----------------------------------------------------------------------------
(* Machine registry (src/src/machine.rs, define_machines!) *)

Machines == {"oddish-1", "gengar-1", "staryu-1"}

index(machine) ==
    CASE machine = "oddish-1" -> 45
      [] machine = "gengar-1" -> 16
      [] machine = "staryu-1" -> 54

cpus(machine) ==
    CASE machine = "oddish-1" -> 4
      [] machine = "gengar-1" -> 8
      [] machine = "staryu-1" -> 12

\* interface() of staryu-1 is todo!(): calling it panics
interface_panics(machine) == machine = "staryu-1"

interface(machine) == "bond0"

-----------------------------------------------------------------------------
(* Fixed-width integers *)

U8Max == 255
Half == 65536

\* u8::try_from(x).unwrap() succeeds
FitsU8(x) == x >= 0 /\ x <= U8Max

\* a * b in u32, a < 2^31 and b < 2^15, computed in 16-bit halves
MulU32(a, b) ==
    LET lo == (a % Half) * b
        hi == (a \div Half) * b + (lo \div Half)
    IN  [overflow |-> hi >= Half,
         value |-> (hi % Half) * Half + (lo % Half)]

-----------------------------------------------------------------------------
(* Address plan *)

NoAddr == <<0, 0, 0, 0>>

\* machine_address_for_idx with the local index split at 255 instead of 254
machine_address_for_idx_255(machine, idx) ==
    LET c == idx \div 255
        d == (idx % 255) + 1
    IN  IF FitsU8(c) /\ FitsU8(d) /\ FitsU8(index(machine))
        THEN [ok |-> TRUE, addr |-> <<10, index(machine), c, d>>]
        ELSE [ok |-> FALSE, addr |-> NoAddr]

machine_address_for_idx(machine, idx) ==
    LET c == idx \div 254
        d == (idx % 254) + 1
    IN  IF FitsU8(c) /\ FitsU8(d) /\ FitsU8(index(machine))
        THEN [ok |-> TRUE, addr |-> <<10, index(machine), c, d>>]
        ELSE [ok |-> FALSE, addr |-> NoAddr]

\* the loop bound addr_per_cpu * machine.cpus()
addr_count(machine, n, checks) ==
    LET p == MulU32(n, cpus(machine))
    IN  [ok |-> ~(p.overflow /\ checks), count |-> p.value]

\* the addresses one machine contributes: for i in 0..count
machine_plan(machine, n, checks) ==
    LET cnt == addr_count(machine, n, checks)
    IN  IF ~cnt.ok
        THEN [ok |-> FALSE, addrs |-> <<>>]
        ELSE IF \E i \in 0..(cnt.count - 1) : ~machine_address_for_idx(machine, i).ok
        THEN [ok |-> FALSE, addrs |-> <<>>]
        ELSE [ok |-> TRUE,
              addrs |-> [k \in 1..cnt.count |-> machine_address_for_idx(machine, k - 1).addr]]

\* gather all addresses across all machines
RECURSIVE gather_addresses(_, _, _, _)
gather_addresses(ms, n, checks, acc) ==
    IF ms = <<>>
    THEN [ok |-> TRUE, addrs |-> acc]
    ELSE LET plan == machine_plan(Head(ms), n, checks)
         IN  IF ~plan.ok
             THEN [ok |-> FALSE, addrs |-> <<>>]
             ELSE gather_addresses(Tail(ms), n, checks, acc \o plan.addrs)

\* address_to_index[a]: HashMap insert keeps the last index inserted for a
address_to_index(addrs, a) ==
    (CHOOSE p \in DOMAIN addrs :
        addrs[p] = a /\ \A q \in DOMAIN addrs : addrs[q] = a => q <= p) - 1

-----------------------------------------------------------------------------
(* Latency matrix (src/src/latency_matrix.rs) *)

\* LatencyMatrix::latency: self.latencies[self.dimension * row + col];
\* indexing a Vec out of bounds panics
latency(m, row, col) ==
    LET at == m.dimension * row + col
    IN  IF at < Len(m.latencies)
        THEN [ok |-> TRUE, value |-> m.latencies[at + 1]]
        ELSE [ok |-> FALSE, value |-> 0]

\* as_millis rounding to the nearest millisecond instead of truncating
as_millis_rounded(micros) == (micros + 500) \div 1000

\* Duration::as_millis: whole milliseconds, truncated
as_millis(micros) == micros \div 1000

-----------------------------------------------------------------------------
(* Configuration synthesiser: machine_generate_configs *)

DefaultClass == 9999

Machine == machines[mi]

\* body of the inner loop (lines 736-747) for one other_idx
visit(acc, addr, addr_idx, other_idx) ==
    LET other == addresses[other_idx + 1]
        lat == latency(matrix, addr_idx, other_idx)
        latency_millis == as_millis(lat.value)
    IN  IF ~lat.ok
        THEN [acc EXCEPT !.ok = FALSE]
        ELSE [ok |-> TRUE,
              latencies_set |-> acc.latencies_set \cup {latency_millis},
              latencies_buckets |->
                  IF latency_millis \in acc.latencies_set
                  THEN acc.latencies_buckets
                  ELSE Append(acc.latencies_buckets, latency_millis),
              latencies_addr_pairs |->
                  IF latency_millis \in DOMAIN acc.latencies_addr_pairs
                  THEN [acc.latencies_addr_pairs EXCEPT
                          ![latency_millis] = Append(@, <<addr, other>>)]
                  ELSE acc.latencies_addr_pairs
                          @@ (latency_millis :> <<<<addr, other>>>>)]

\* for other_idx in (lo..=hi).filter(|i| *i != addr_idx)
RECURSIVE scan_others(_, _, _, _, _)
scan_others(acc, addr, addr_idx, lo, hi) ==
    IF lo > hi \/ ~acc.ok
    THEN acc
    ELSE IF lo = hi
    THEN IF lo = addr_idx THEN acc ELSE visit(acc, addr, addr_idx, lo)
    ELSE LET mid == (lo + hi) \div 2
             left == scan_others(acc, addr, addr_idx, lo, mid)
         IN  IF left.ok
             THEN scan_others(left, addr, addr_idx, mid + 1, hi)
             ELSE left

\* for &addr in &machine_addresses[lo..=hi] (1-based positions)
RECURSIVE scan_addresses(_, _, _, _)
scan_addresses(acc, machine_addresses, lo, hi) ==
    IF lo > hi \/ ~acc.ok
    THEN acc
    ELSE IF lo = hi
    THEN scan_others(acc, machine_addresses[lo],
                     address_to_index(addresses, machine_addresses[lo]),
                     0, Len(addresses) - 1)
    ELSE LET mid == (lo + hi) \div 2
             left == scan_addresses(acc, machine_addresses, lo, mid)
         IN  IF left.ok
             THEN scan_addresses(left, machine_addresses, mid + 1, hi)
             ELSE left

\* the values of a set in increasing order
RECURSIVE sorted(_)
sorted(values) ==
    IF values = {}
    THEN <<>>
    ELSE LET least == CHOOSE v \in values : \A w \in values : v <= w
         IN  <<least>> \o sorted(values \ {least})

\* the buckets kept as an ordered set of latencies instead of a list
bucketise_sorted(machine_addresses) ==
    LET b == scan_addresses([ok |-> TRUE, latencies_set |-> {}, latencies_buckets |-> <<>>,
                             latencies_addr_pairs |-> <<>>],
                            machine_addresses, 1, Len(machine_addresses))
    IN  [b EXCEPT !.latencies_buckets = sorted(b.latencies_set)]

\* lines 730-748: latencies_set, latencies_buckets, latencies_addr_pairs
bucketise(machine_addresses) ==
    scan_addresses([ok |-> TRUE, latencies_set |-> {}, latencies_buckets |-> <<>>,
                    latencies_addr_pairs |-> <<>>],
                   machine_addresses, 1, Len(machine_addresses))

\* lines 750-779: for iface in ["lo", interface] { root qdisc, default class,
\* then class, netem qdisc and fw filter of every bucket }
tc_commands(machine, buckets) ==
    LET ifaces == <<"lo", interface(machine)>>
        block == 2 + 3 * Len(buckets)
        line(q) ==
            LET iface == ifaces[((q - 1) \div block) + 1]
                r == (q - 1) % block
                idx == (r - 2) \div 3
                t == (r - 2) % 3
            IN  IF r = 0
                THEN [op |-> "qdisc_root", dev |-> iface, classid |-> DefaultClass,
                      handle |-> 1, delay |-> 0]
                ELSE IF r = 1
                THEN [op |-> "class", dev |-> iface, classid |-> DefaultClass,
                      handle |-> 0, delay |-> 0]
                ELSE IF t = 0
                THEN [op |-> "class", dev |-> iface, classid |-> idx + 1,
                      handle |-> 0, delay |-> 0]
                ELSE IF t = 1
                THEN [op |-> "qdisc_netem", dev |-> iface, classid |-> idx + 1,
                      handle |-> idx + 2, delay |-> buckets[idx + 1]]
                ELSE [op |-> "filter", dev |-> iface, classid |-> idx + 1,
                      handle |-> idx + 1, delay |-> 0]
    IN  [q \in 1..(2 * block) |-> line(q)]

\* lines 723-728: the route, then one addr add per address
ip_commands(machine, addrs) ==
    <<[op |-> "route", addr |-> <<10, 0, 0, 0>>, dev |-> interface(machine)]>>
    \o [k \in 1..Len(addrs) |->
            [op |-> "addr", addr |-> addrs[k], dev |-> interface(machine)]]

\* bucket_elements leaving out the last pair of the bucket
bucket_elements_short(pairs, latency_mark) ==
    [k \in 1..(Len(pairs) - 1) |->
        [src |-> pairs[k][1], dst |-> pairs[k][2], mark |-> latency_mark]]

\* line 794: the elements one bucket contributes to mark_pairs, "src . dst : mark"
bucket_elements(pairs, latency_mark) ==
    [k \in 1..Len(pairs) |->
        [src |-> pairs[k][1], dst |-> pairs[k][2], mark |-> latency_mark]]

\* the assertion of line 793 left out
pairs_distinct_unchecked(pairs) == TRUE

\* line 793: assert_ne!(src, dst) holds for every pair of the bucket
pairs_distinct(pairs) == \A k \in 1..Len(pairs) : pairs[k][1] # pairs[k][2]

\* lines 785-796: for (latency_idx, latency_millis) in buckets[lo..=hi] (1-based)
RECURSIVE mark_pairs(_, _, _, _)
mark_pairs(buckets, addr_pairs, lo, hi) ==
    IF lo > hi
    THEN [ok |-> TRUE, elements |-> <<>>]
    ELSE IF lo = hi
    THEN IF pairs_distinct(addr_pairs[buckets[lo]])
         THEN [ok |-> TRUE, elements |-> bucket_elements(addr_pairs[buckets[lo]], lo)]
         ELSE [ok |-> FALSE, elements |-> <<>>]
    ELSE LET mid == (lo + hi) \div 2
             left == mark_pairs(buckets, addr_pairs, lo, mid)
             right == mark_pairs(buckets, addr_pairs, mid + 1, hi)
         IN  IF left.ok /\ right.ok
             THEN [ok |-> TRUE, elements |-> left.elements \o right.elements]
             ELSE [ok |-> FALSE, elements |-> <<>>]

\* lines 717-815: one iteration of the machine loop
machine_config(machine) ==
    IF interface_panics(machine)
    THEN [ok |-> FALSE]
    ELSE LET machine_addresses == machine_plan(machine, addr_per_cpu, overflow_checks).addrs
             b == bucketise(machine_addresses)
             nft == mark_pairs(b.latencies_buckets, b.latencies_addr_pairs,
                               1, Len(b.latencies_buckets))
         IN  IF ~b.ok
             THEN [ok |-> FALSE]
             ELSE IF ~nft.ok
             THEN [ok |-> FALSE]
             ELSE [ok |-> TRUE,
                   buckets |-> b.latencies_buckets,
                   config |->
                      [machine |-> machine,
                       addresses |-> machine_addresses,
                       nft_script |-> nft.elements,
                       tc_commands |-> tc_commands(machine, b.latencies_buckets),
                       ip_commands |-> ip_commands(machine, machine_addresses)]]

\* lines 704-715: gather all addresses across all machines
Gather ==
    /\ pc = "gather"
    /\ LET g == gather_addresses(machines, addr_per_cpu, overflow_checks, <<>>)
       IN  IF g.ok
           THEN /\ addresses' = g.addrs
                /\ pc' = "machine"
           ELSE /\ pc' = "panic"
                /\ UNCHANGED addresses
    /\ UNCHANGED <<argVars, inVars, upVars, ctxVars, runVars, feVars, configs, mi, latencies_buckets>>

\* lines 717-815: one iteration of the machine loop, pushing its MachineConfig
GenerateMachine ==
    /\ pc = "machine"
    /\ mi <= Len(machines)
    /\ LET r == machine_config(Machine)
       IN  IF r.ok
           THEN /\ configs' = Append(configs, r.config)
                /\ latencies_buckets' = r.buckets
                /\ mi' = mi + 1
                /\ pc' = "machine"
           ELSE /\ pc' = "panic"
                /\ UNCHANGED <<configs, latencies_buckets, mi>>
    /\ UNCHANGED <<argVars, inVars, upVars, ctxVars, runVars, feVars, addresses>>

\* line 816: the machine loop is over, return configs to the command
Return ==
    /\ pc = "machine"
    /\ mi > Len(machines)
    /\ pc' = IF cmd = "up" THEN "build" ELSE "done"
    /\ UNCHANGED <<argVars, inVars, upVars, ctxVars, runVars, feVars, genVars>>

-----------------------------------------------------------------------------
(* Execution context and transport.  An Option is a sequence of length 0    *)
(* (None) or 1 (Some).  A Machine is represented by its hostname.  A        *)
(* command line is the sequence of its words.                               *)

\* machine.rs line 43: Machine::hostname
hostname(machine) == machine

\* job_id.to_string()
to_string(n) == CASE n = 36627 -> "36627"

\* an Err(eyre::Report): its message and the contexts wrapped around it
NoError == [msg |-> "", context |-> <<>>]

Report(msg) == [msg |-> msg, context |-> <<>>]

\* .context(text) / .with_context(|| format!(text, machine))
with_context(err, text, machine) ==
    [err EXCEPT !.context = Append(@, [text |-> text, machine |-> machine])]

\* machine_run_arguments whose jump host option is left out
machine_run_arguments_nojump(machine, args) ==
    [ok |-> TRUE,
     argv |-> <<"ssh", "-o", "StrictHostKeyChecking=no", "-o",
                "UserKnownHostsFile=/dev/null", hostname(machine)>>
              \o (IF args = <<>> THEN <<"bash">> ELSE <<>>) \o args]

\* main.rs lines 518-558: the command line machine_run spawns for `machine`;
\* ok is FALSE when ctx.frontend_hostname.as_ref().unwrap() panics
machine_run_arguments(machine, args) ==
    LET ssh_common == <<"-o", "StrictHostKeyChecking=no",
                        "-o", "UserKnownHostsFile=/dev/null">>
        direct == <<"ssh">> \o ssh_common \o <<hostname(machine)>>
        arguments ==
            CASE node = "frontend" -> [ok |-> TRUE, argv |-> direct]
              [] node = "unknown" ->
                    IF frontend_hostname = <<>>
                    THEN [ok |-> FALSE, argv |-> <<>>]
                    ELSE [ok |-> TRUE,
                          argv |-> <<"ssh">> \o ssh_common
                                   \o <<"-J", frontend_hostname[1], hostname(machine)>>]
              [] OTHER ->
                    IF node = machine
                    THEN [ok |-> TRUE, argv |-> <<>>]
                    ELSE [ok |-> TRUE, argv |-> direct]
    IN  [ok |-> arguments.ok,
         argv |-> arguments.argv
                  \o (IF args = <<>> THEN <<"bash">> ELSE <<>>) \o args]

\* main.rs lines 603-614: the helper container command line
docker_run ==
    <<"docker", "run", "--rm", "-i", "--net=host", "--privileged",
      "local/oar-p2p-networking">>

\* main.rs lines 397-421: the scp command line of machine_copy_logs_dir;
\* ok is FALSE when ctx.frontend_hostname.as_ref().expect("TODO") panics
machine_copy_logs_dir_arguments(machine) ==
    LET scp_common == <<"-o", "StrictHostKeyChecking=no",
                        "-o", "UserKnownHostsFile=/dev/null">>
        source_path == <<hostname(machine), ":/tmp/oar-p2p-logs">>
    IN  IF node = "unknown" /\ frontend_hostname = <<>>
        THEN [ok |-> FALSE, argv |-> <<>>]
        ELSE [ok |-> TRUE,
              argv |-> <<"scp">> \o scp_common
                       \o (IF node = "unknown"
                           THEN <<"-J", frontend_hostname[1]>> ELSE <<>>)
                       \o <<"-r">> \o source_path \o <<"output_dir">>]

\* job_list_machines with the frontend hostname check left out
job_list_machines_unchecked ==
    [ok |-> TRUE,
     argv |-> <<"ssh", "frontend", "oarstat", "-j", "36627", "-J">>,
     err |-> NoError]

\* main.rs lines 819-899: the checks job_list_machines makes before it asks
\* the scheduler, and the command line it then spawns (none on a machine,
\* where it reads the file named by OAR_NODEFILE)
job_list_machines ==
    CASE node = "frontend" ->
            IF job_id = <<>>
            THEN [ok |-> FALSE, argv |-> <<>>,
                  err |-> Report("job id is required when running from cluster")]
            ELSE [ok |-> TRUE,
                  argv |-> <<"oarstat", "-j", to_string(job_id[1]), "-J">>,
                  err |-> NoError]
      [] node = "unknown" ->
            IF frontend_hostname = <<>>
            THEN [ok |-> FALSE, argv |-> <<>>,
                  err |-> Report("frontend hostname is required when running from outside the cluster")]
            ELSE IF job_id = <<>>
            THEN [ok |-> FALSE, argv |-> <<>>,
                  err |-> Report("job id is required when running from cluster")]
            ELSE [ok |-> TRUE,
                  argv |-> <<"ssh", frontend_hostname[1], "oarstat", "-j",
                             to_string(job_id[1]), "-J">>,
                  err |-> NoError]
      [] OTHER -> [ok |-> TRUE, argv |-> <<>>, err |-> NoError]

\* the position of a command after job_list_machines has returned the machines
first_step ==
    CASE cmd = "up" -> "gather"
      [] cmd = "down" -> "build"
      [] cmd = "show" -> "list"
      [] cmd = "run" -> "schedule"

\* cmd_net_up line 169, cmd_net_down line 180, cmd_net_show line 188, cmd_run
\* line 273: context_from_common, then job_list_machines.  The scheduler's
\* answer is the list `machines`; oarstat may also fail.
JobListMachines ==
    /\ pc = "list_machines"
    /\ LET r == job_list_machines
       IN  IF ~r.ok
           THEN /\ pc' = "err"
                /\ error' = r.err
                /\ UNCHANGED procs
           ELSE \E status \in {"0", "1"} :
                   /\ procs' = IF r.argv = <<>>
                               THEN procs
                               ELSE procs \cup {[step |-> "oarstat", machine |-> "",
                                                 argv |-> r.argv, exit |-> status]}
                   /\ pc' = IF status = "0" THEN first_step ELSE "err"
                   /\ error' = IF status = "0"
                               THEN error
                               ELSE IF r.argv = <<>>
                               THEN with_context(Report("environment variable not found"),
                                                 "reading OAR_NODEFILE env var", "")
                               ELSE Report("failed to run oarstat")
    /\ UNCHANGED <<argVars, inVars, genVars, upVars, ctxVars, scheduled, remote, feVars>>

\* cmd_run lines 274-287: read and parse the schedule; `scheduled` is the set
\* of machines that the schedule places a container on
ParseSchedule ==
    /\ pc = "schedule"
    /\ \/ /\ pc' = "err"
          /\ error' = Report("parsing schedule")
          /\ UNCHANGED scheduled
       \/ /\ pc' = "containers_clean"
          /\ scheduled' \in {{}, Range(machines), {"gengar-1"}}
          /\ UNCHANGED error
    /\ UNCHANGED <<argVars, inVars, genVars, upVars, ctxVars, procs, remote, feVars>>

-----------------------------------------------------------------------------
(* Remote steps.  cmd_net_up, cmd_net_down and cmd_net_show spawn one task  *)
(* per machine on a JoinSet, join them all and then return the first error. *)
(* cmd_run pushes one future per machine on a FuturesUnordered              *)
(* (machines_foreach) and returns at the first error it is handed.          *)

Steps ==
    {"build", "clean", "configure", "list",
     "containers_clean", "create", "start", "wait", "logs", "copy"}

JoinSetSteps == {"build", "clean", "configure", "list"}

\* next_step taking every command from clean to configure
next_step_always_configure(step) ==
    CASE step = "build" -> "clean"
      [] step = "clean" -> "configure"
      [] step = "configure" -> "done"
      [] step = "list" -> "done"
      [] step = "containers_clean" -> "create"
      [] step = "create" -> "start"
      [] step = "start" -> "wait"
      [] step = "wait" -> "logs"
      [] step = "logs" -> "copy"
      [] step = "copy" -> "done"

\* the step that follows `step` in the command: cmd_net_up lines 172-175,
\* cmd_net_down lines 181-183, cmd_net_show, cmd_run
next_step(step) ==
    CASE step = "build" -> "clean"
      [] step = "clean" -> IF cmd = "up" THEN "configure" ELSE "done"
      [] step = "configure" -> "done"
      [] step = "list" -> "done"
      [] step = "containers_clean" -> "create"
      [] step = "create" -> "start"
      [] step = "start" -> "wait"
      [] step = "wait" -> "logs"
      [] step = "logs" -> "copy"
      [] step = "copy" -> "done"

\* the machines a step runs a task for: machines_configure takes them from
\* the configs, the start and copy steps of cmd_run only take the machines
\* that have a container
step_machines(step) ==
    CASE step = "configure" -> [k \in 1..Len(configs) |-> configs[k].machine]
      [] step \in {"start", "copy"} -> SelectSeq(machines, LAMBDA m : m \in scheduled)
      [] OTHER -> machines

targets(step) == Len(step_machines(step))

\* no step looks at the exit status of its script
checks_exit_never(step) == FALSE

\* machine_run_script (main.rs line 595) fails on a non-zero exit status:
\* Ok(output.exit_ok()?).  machine_net_container_run_script (lines 598-618)
\* returns the Output as it is, and machine_clean (line 656) and
\* machine_configure (line 688) drop it.
checks_exit(step) == step \notin {"clean", "configure"}

\* the command line of the task of `step` on `machine`; ok is FALSE when the
\* task panics before it spawns a process (machine.interface() is todo!())
task_arguments(step, machine) ==
    CASE step \in {"clean", "configure"} ->
            IF step = "clean" /\ interface_panics(machine)
            THEN [ok |-> FALSE, argv |-> <<>>]
            ELSE machine_run_arguments(machine, docker_run)
      [] step = "list" ->
            IF interface_panics(machine)
            THEN [ok |-> FALSE, argv |-> <<>>]
            ELSE machine_run_arguments(machine, <<>>)
      [] step = "copy" -> machine_copy_logs_dir_arguments(machine)
      [] OTHER -> machine_run_arguments(machine, <<>>)

\* what a remote script can do.  The container may not start at all
\* ("not_run": docker or ssh exits non-zero, the script has no effect).
outcomes(step) ==
    CASE step = "clean" -> {"ran", "not_run"}
      [] step = "configure" -> {"applied", "nft_failed", "not_run"}
      [] OTHER -> {"exit0", "exit1"}

exit_status(outcome) == IF outcome \in {"ran", "applied", "exit0"} THEN "0" ELSE "1"

\* the overlay state of a machine that holds nothing of the overlay
Clean == [route |-> FALSE, addrs |-> {}, qdisc |-> {}, nft |-> FALSE]

\* main.rs lines 639-658, the cleanup script: every part of the footprint is
\* removed, each command's own failure is swallowed by `|| true`
machine_clean(footprint) == Clean

\* main.rs lines 660-683, the configuration script: `ip -b -` stops at its
\* first failing line ("route add" when the route exists), `tc -b -` likewise
\* ("qdisc add ... root" when a root qdisc exists), then `nft -f -` adds the
\* table; the script has no `set -e` and exits with the status of nft
machine_configure(footprint, config, nft_ok) ==
    [route |-> TRUE,
     addrs |-> IF footprint.route
               THEN footprint.addrs
               ELSE footprint.addrs \cup Range(config.addresses),
     qdisc |-> footprint.qdisc \cup {"lo", interface(config.machine)},
     nft |-> footprint.nft \/ nft_ok]

effect(step, outcome, footprint, p) ==
    CASE outcome = "ran" -> machine_clean(footprint)
      [] outcome = "applied" -> machine_configure(footprint, configs[p], TRUE)
      [] outcome = "nft_failed" -> machine_configure(footprint, configs[p], FALSE)
      [] OTHER -> footprint

\* set.spawn(...) / futures.push(...) for every machine of the step
Spawn ==
    /\ pc \in Steps
    /\ phase = "none"
    /\ phase' = pc
    /\ tasks' = [p \in 1..targets(pc) |-> "spawned"]
    /\ UNCHANGED <<argVars, pc, inVars, genVars, ctxVars, runVars, feVars>>

\* a task reaches machine_run and spawns its process, or fails to
\* ("spawning process"), or panics before
TaskStart ==
    /\ pc \in Steps
    /\ phase = pc
    /\ \E p \in DOMAIN tasks :
          /\ tasks[p] = "spawned"
          /\ LET machine == step_machines(pc)[p]
                 a == task_arguments(pc, machine)
             IN  IF ~a.ok
                 THEN /\ tasks' = [tasks EXCEPT ![p] = "panicked"]
                      /\ UNCHANGED procs
                 ELSE \/ /\ tasks' = [tasks EXCEPT ![p] = "running"]
                         /\ procs' = procs \cup {[step |-> pc, machine |-> machine,
                                                  argv |-> a.argv, exit |-> "running"]}
                      \/ /\ tasks' = [tasks EXCEPT ![p] = "err_spawn"]
                         /\ UNCHANGED procs
    /\ UNCHANGED <<argVars, pc, phase, inVars, genVars, ctxVars, scheduled, error, remote, feVars>>

\* the process of one task exits: the script's effect on the machine, the
\* exit status, and the task's result
TaskEnd ==
    /\ pc \in Steps
    /\ phase = pc
    /\ \E p \in DOMAIN tasks, outcome \in outcomes(pc) :
          /\ tasks[p] = "running"
          /\ LET machine == step_machines(pc)[p]
                 proc == CHOOSE q \in procs :
                            q.step = pc /\ q.machine = machine /\ q.exit = "running"
             IN  /\ procs' = (procs \ {proc})
                             \cup {[proc EXCEPT !.exit = exit_status(outcome)]}
                 /\ remote' = [remote EXCEPT
                                 ![machine] = effect(pc, outcome, @, p)]
                 /\ tasks' = [tasks EXCEPT
                                ![p] = IF checks_exit(pc) /\ exit_status(outcome) # "0"
                                       THEN "err_exit"
                                       ELSE "ok"]
    /\ UNCHANGED <<argVars, pc, phase, inVars, genVars, ctxVars, scheduled, error, feVars>>

\* the Err a failed task returns
task_error(state) ==
    IF state = "err_spawn"
    THEN with_context(Report("No such file or directory"), "spawning process", "")
    ELSE Report("process exited unsuccessfully")

\* join_all with the wait for the other tasks left out
all_joined_first(t) == \E p \in DOMAIN t : t[p] \notin {"spawned", "running"}

\* set.join_all().await returns when every task of the set has finished
all_joined(t) == \A p \in DOMAIN t : t[p] \notin {"spawned", "running"}

\* set.join_all().await, then result? for every result (main.rs lines
\* 463-467, 477-481, 492-496); join_all panics when a task has panicked
Join ==
    /\ pc \in JoinSetSteps
    /\ phase = pc
    /\ all_joined(tasks)
    /\ IF \E p \in DOMAIN tasks : tasks[p] = "panicked"
       THEN /\ pc' = "panic"
            /\ UNCHANGED error
       ELSE IF \E p \in DOMAIN tasks : tasks[p] \in {"err_spawn", "err_exit"}
       THEN /\ pc' = "err"
            /\ \E p \in DOMAIN tasks :
                  /\ tasks[p] \in {"err_spawn", "err_exit"}
                  /\ error' = task_error(tasks[p])
       ELSE /\ pc' = next_step(pc)
            /\ UNCHANGED error
    /\ phase' = "none"
    /\ tasks' = <<>>
    /\ UNCHANGED <<argVars, inVars, genVars, ctxVars, scheduled, procs, remote, feVars>>

\* machines_foreach lines 439-444: futures.next().await hands over the result
\* of a finished future; an Err is returned at once and the other futures are
\* dropped (their processes are not killed)
ForeachNext ==
    /\ pc \in Steps \ JoinSetSteps
    /\ phase = pc
    /\ \E p \in DOMAIN tasks :
          /\ tasks[p] \in {"ok", "err_spawn", "err_exit"}
          /\ IF tasks[p] = "ok"
             THEN /\ tasks' = [tasks EXCEPT ![p] = "taken"]
                  /\ UNCHANGED <<pc, phase, error>>
             ELSE /\ pc' = "err"
                  /\ error' = task_error(tasks[p])
                  /\ phase' = "none"
                  /\ tasks' = <<>>
    /\ UNCHANGED <<argVars, inVars, genVars, ctxVars, scheduled, procs, remote, feVars>>

\* machines_foreach line 445: futures.next() is None, Ok(())
ForeachEnd ==
    /\ pc \in Steps \ JoinSetSteps
    /\ phase = pc
    /\ \A p \in DOMAIN tasks : tasks[p] = "taken"
    /\ pc' = next_step(pc)
    /\ phase' = "none"
    /\ tasks' = <<>>
    /\ UNCHANGED <<argVars, inVars, genVars, ctxVars, runVars, feVars>>

\* the next up or down on the same job, after the last one has ended
NewCommand ==
    /\ cmd \in {"up", "down"}
    /\ pc \in {"done", "err", "panic"}
    /\ cmd' \in {"up", "down"}
    /\ pc' = "list_machines"
    /\ addresses' = <<>>
    /\ configs' = <<>>
    /\ mi' = 1
    /\ latencies_buckets' = <<>>
    /\ procs' = {}
    /\ error' = NoError
    /\ UNCHANGED <<argVars, overflow_checks, matrix, machines, addr_per_cpu, upVars,
                   ctxVars, scheduled, remote, feVars>>

-----------------------------------------------------------------------------
(* machine.rs lines 150-210: for_each and for_each_with_limit.  `futures`   *)
(* maps the position of a machine to the state of its future: "pending"     *)
(* (not polled yet, or waiting in sem.acquire()), "running" (it holds a     *)
(* permit and f(machine) is executing), "taken" (its Ok was pushed on       *)
(* results) or "dropped".                                                   *)

MAX_PERMITS == 536870911

\* value.parse::<usize>() of the values the model gives the variable
parse(value) ==
    CASE value = "0" -> [ok |-> TRUE, value |-> 0]
      [] value = "1" -> [ok |-> TRUE, value |-> 1]
      [] value = "2" -> [ok |-> TRUE, value |-> 2]
      [] value = "3" -> [ok |-> TRUE, value |-> 3]
      [] OTHER -> [ok |-> FALSE, value |-> 0]

\* lines 159-169: the limit for_each reads from OAR_P2P_CONCURRENCY_LIMIT
env_limit(env) ==
    IF env = <<>> THEN [ok |-> TRUE, value |-> 0] ELSE parse(env[1])

\* lines 182-186: the permits of the semaphore
permits(l) == IF l = 0 THEN MAX_PERMITS ELSE l

\* lines 159-195: for_each reads the limit (an invalid value panics), then
\* for_each_with_limit creates the semaphore and pushes one future per machine
ForEach ==
    /\ pc = "for_each"
    /\ LET l == env_limit(limit_env)
       IN  IF l.ok
           THEN /\ pc' = "for_each_poll"
                /\ limit' = l.value
                /\ sem' = permits(l.value)
                /\ futures' = [p \in DOMAIN machines |-> "pending"]
           ELSE /\ pc' = "panic"
                /\ UNCHANGED <<limit, sem, futures>>
    /\ UNCHANGED <<argVars, inVars, genVars, upVars, ctxVars, runVars, limit_env, results>>

\* sem.acquire() never waits
acquire_ready_always(s) == TRUE

\* sem.acquire() is ready when a permit is available
acquire_ready(s) == s > 0

\* line 192: a future is polled and gets its permit
Acquire ==
    /\ pc = "for_each_poll"
    /\ \E p \in DOMAIN futures :
          /\ futures[p] = "pending"
          /\ acquire_ready(sem)
          /\ sem' = sem - 1
          /\ futures' = [futures EXCEPT ![p] = "running"]
    /\ UNCHANGED <<argVars, pc, inVars, genVars, upVars, ctxVars, runVars, limit, limit_env, results>>

\* the permit is leaked instead of dropped
release_forgotten(s) == s

\* line 192-194: _permit is dropped when the future has produced its value
release(s) == s + 1

\* line 204: Err(err).with_context(|| format!("running task on machine {machine}"))
annotate(err, machine) == with_context(err, "running task on machine", hostname(machine))

\* lines 200-207: futures.next().await hands over (machine, result) of a
\* future that has ended, whose permit is dropped with it.  An Ok is pushed
\* on results; an Err is annotated and returned, which drops every other
\* future and the permits they hold.
Yield ==
    /\ pc = "for_each_poll"
    /\ \E p \in DOMAIN futures :
          /\ futures[p] = "running"
          /\ \/ /\ futures' = [futures EXCEPT ![p] = "taken"]
                /\ sem' = release(sem)
                /\ results' = Append(results, machines[p])
                /\ UNCHANGED <<pc, error>>
             \/ /\ pc' = "err"
                /\ error' = annotate(Report("task failed"), machines[p])
                /\ futures' = [q \in DOMAIN futures |->
                                 IF futures[q] = "taken" THEN "taken" ELSE "dropped"]
                /\ sem' = sem + Cardinality({q \in DOMAIN futures : futures[q] = "running"})
                /\ UNCHANGED results
    /\ UNCHANGED <<argVars, inVars, genVars, upVars, ctxVars, scheduled, procs, remote, limit, limit_env>>

\* line 209: futures.next() is None, Ok(results)
ForEachReturn ==
    /\ pc = "for_each_poll"
    /\ \A p \in DOMAIN futures : futures[p] = "taken"
    /\ pc' = "done"
    /\ UNCHANGED <<argVars, inVars, genVars, upVars, ctxVars, runVars, feVars>>

-----------------------------------------------------------------------------
(* Node detection (main.rs).  A host name is the string itself; the file    *)
(* content is compared as read, main.rs does not trim it.                   *)

\* machine.rs lines 55-60: Machine::from_hostname
from_hostname(h) == IF h \in Machines THEN <<h>> ELSE <<>>

\* main.rs lines 933-939: get_hostname, the content of /etc/hostname when it
\* can be read, else the variable HOSTNAME, else the Err of std::env::var
get_hostname ==
    IF hostname_file # <<>>
    THEN [ok |-> TRUE, value |-> hostname_file[1], err |-> NoError]
    ELSE IF hostname_env # <<>>
    THEN [ok |-> TRUE, value |-> hostname_env[1], err |-> NoError]
    ELSE [ok |-> FALSE, value |-> "",
          err |-> with_context(Report("environment variable not found"),
                               "reading HOSTNAME env var", "")]

\* main.rs lines 921-931: get_execution_node
get_execution_node ==
    LET h == get_hostname
    IN  IF ~h.ok
        THEN [ok |-> FALSE, node |-> "unknown", err |-> h.err]
        ELSE [ok |-> TRUE,
              node |-> IF h.value = "frontend"
                       THEN "frontend"
                       ELSE IF from_hostname(h.value) # <<>>
                       THEN from_hostname(h.value)[1]
                       ELSE "unknown",
              err |-> NoError]

\* main.rs lines 154-161: context_from_common, the first call of cmd_net_up,
\* cmd_net_down, cmd_net_show and cmd_run
ContextFromCommon ==
    /\ pc = "context"
    /\ LET r == get_execution_node
       IN  IF r.ok
           THEN /\ node' = r.node
                /\ pc' = "list_machines"
                /\ UNCHANGED error
           ELSE /\ pc' = "err"
                /\ error' = r.err
                /\ UNCHANGED node
    /\ UNCHANGED <<argVars, inVars, genVars, upVars, job_id, frontend_hostname,
                   scheduled, procs, remote, feVars>>

-----------------------------------------------------------------------------
(* Job id inference (context.rs, oar.rs).  A string that is parsed is the   *)
(* sequence of its characters.  A u32 is the pair of its 16-bit halves      *)
(* (hi, lo).  The standard output of oarstat is a record: kind "object"     *)
(* with the jobs in iteration order (each a key and an Option state),       *)
(* "hash_error" (the message oarstat prints when there is no job),          *)
(* "scalar" (JSON that is no object) or "invalid" (no JSON).                *)

Digits == <<"0", "1", "2", "3", "4", "5", "6", "7", "8", "9">>

\* char::to_digit(10)
to_digit(c) ==
    IF \E d \in 1..10 : Digits[d] = c
    THEN <<(CHOOSE d \in 1..10 : Digits[d] = c) - 1>>
    ELSE <<>>

ParseIntError == [ok |-> FALSE, hi |-> 0, lo |-> 0]

\* the digit loop of str::parse::<u32>: checked multiply by ten and add
RECURSIVE parse_digits(_, _, _)
parse_digits(chars, k, acc) ==
    IF k > Len(chars)
    THEN acc
    ELSE LET d == to_digit(chars[k])
         IN  IF d = <<>>
             THEN ParseIntError
             ELSE LET low == acc.lo * 10 + d[1]
                      high == acc.hi * 10 + low \div Half
                  IN  IF high >= Half
                      THEN ParseIntError
                      ELSE parse_digits(chars, k + 1,
                               [ok |-> TRUE, hi |-> high, lo |-> low % Half])

\* str::parse::<u32>: empty and a lone sign are errors, one leading '+' is
\* accepted, a '-' is no digit
parse_u32(chars) ==
    IF chars = <<>> \/ chars = <<"+">> \/ chars = <<"-">>
    THEN ParseIntError
    ELSE parse_digits(IF chars[1] = "+" THEN Tail(chars) ELSE chars, 1,
                      [ok |-> TRUE, hi |-> 0, lo |-> 0])

\* a Result<u32> of Context::job_id
OkId(n) == [ok |-> TRUE, value |-> n, err |-> NoError]

ErrId(msg) == [ok |-> FALSE, value |-> 0, err |-> Report(msg)]

\* oar.rs lines 144-171: extract_job_ids_from_oarstat_output, the loop over the
\* jobs of the object: a job that is not "Running" is skipped, a job without
\* a state panics, a key that is no u32 is an error
RECURSIVE running_ids(_, _, _)
running_ids(jobs, k, job_ids) ==
    IF k > Len(jobs)
    THEN [kind |-> "ok", job_ids |-> job_ids, err |-> NoError]
    ELSE IF jobs[k].state = <<>>
    THEN [kind |-> "panic", job_ids |-> <<>>, err |-> NoError]
    ELSE IF jobs[k].state[1] # "Running"
    THEN running_ids(jobs, k + 1, job_ids)
    ELSE LET job == parse_u32(jobs[k].key)
         IN  IF ~job.ok
             THEN [kind |-> "err", job_ids |-> <<>>,
                   err |-> Report("invalid digit found in string")]
             ELSE running_ids(jobs, k + 1, Append(job_ids, job.hi * Half + job.lo))

extract_job_ids_from_oarstat_output(output) ==
    CASE output.kind = "invalid" ->
            [kind |-> "err", job_ids |-> <<>>, err |-> Report("expected value")]
      [] output.kind = "scalar" ->
            [kind |-> "err", job_ids |-> <<>>,
             err |-> Report("expected oar stat output to produce a json object")]
      [] output.kind = "object" -> running_ids(output.jobs, 1, <<>>)

\* list_user_job_ids that runs oarstat wherever it is and trusts its output
list_user_job_ids_anywhere ==
    IF oarstat = <<>>
    THEN [kind |-> "err", job_ids |-> <<>>, argv |-> <<"oarstat", "-u", "-J">>,
          err |-> Report("No such file or directory")]
    ELSE extract_job_ids_from_oarstat_output(
             IF oarstat[1].stdout.kind = "hash_error"
             THEN [kind |-> "object", jobs |-> <<>>]
             ELSE oarstat[1].stdout) @@ [argv |-> <<"oarstat", "-u", "-J">>]

\* oar.rs lines 79-128: list_user_job_ids; `oarstat` is None when the process
\* cannot be spawned, else its exit status and standard output
list_user_job_ids ==
    IF node \in Machines
    THEN [kind |-> "err", job_ids |-> <<>>, argv |-> <<>>,
          err |-> Report("cannot run oarstat from inside a cluster machine")]
    ELSE IF node = "unknown" /\ frontend_hostname = <<>>
    THEN [kind |-> "err", job_ids |-> <<>>, argv |-> <<>>,
          err |-> Report("missing frontend hostname")]
    ELSE LET argv == IF node = "frontend"
                     THEN <<"oarstat", "-u", "-J">>
                     ELSE <<"ssh", frontend_hostname[1], "oarstat", "-u", "-J">>
         IN  IF oarstat = <<>>
             THEN [kind |-> "err", job_ids |-> <<>>, argv |-> argv,
                   err |-> Report("No such file or directory")]
             ELSE IF ~oarstat[1].success
             THEN [kind |-> "err", job_ids |-> <<>>, argv |-> argv,
                   err |-> Report("failed to run oarstat")]
             ELSE extract_job_ids_from_oarstat_output(
                      IF oarstat[1].stdout.kind = "hash_error"
                      THEN [kind |-> "object", jobs |-> <<>>]
                      ELSE oarstat[1].stdout) @@ [argv |-> argv]

\* context.rs lines 37-56: Context::job_id
JobId ==
    /\ pc = "job_id"
    /\ IF job_id # <<>>
       THEN /\ ret' = OkId(job_id[1])
            /\ pc' = "done"
            /\ UNCHANGED procs
       ELSE IF infer_job_id
       THEN LET r == list_user_job_ids
            IN  /\ procs' = IF r.argv = <<>>
                            THEN procs
                            ELSE procs \cup {[step |-> "oarstat", machine |-> "",
                                              argv |-> r.argv,
                                              exit |-> IF oarstat # <<>> /\ oarstat[1].success
                                                       THEN "0" ELSE "1"]}
                /\ pc' = IF r.kind = "panic" THEN "panic" ELSE "done"
                /\ ret' = CASE r.kind = "panic" -> ret
                            [] r.kind = "err" -> [ok |-> FALSE, value |-> 0, err |-> r.err]
                            [] Len(r.job_ids) = 0 ->
                                  ErrId("cannot infer job id, no jobs are running")
                            [] Len(r.job_ids) = 1 -> OkId(r.job_ids[1])
                            [] OTHER ->
                                  ErrId("cannot infer job id, multiple jobs are running")
       ELSE /\ ret' = ErrId("missing job id")
            /\ pc' = "done"
            /\ UNCHANGED procs
    /\ UNCHANGED <<inVars, genVars, upVars, ctxVars, scheduled, error, remote, feVars,
                   hostname_file, hostname_env, infer_job_id, oarstat, content, str>>

-----------------------------------------------------------------------------
(* LatencyMatrix::parse (latency_matrix.rs).  The text is the sequence of   *)
(* its lines and a line the sequence of its whitespace-separated tokens     *)
(* (what line.trim() and split_whitespace() leave of it; a blank line has   *)
(* none).  An f64 is a record: finite or not, its sign, and for a finite    *)
(* value its magnitude in thousandths.                                      *)

Finite(negative, thousandths) ==
    [ok |-> TRUE, finite |-> TRUE, nan |-> FALSE, negative |-> negative,
     thousandths |-> thousandths]

\* component.parse::<f64>() on the tokens of the model: Rust reads "inf",
\* "infinity" and "nan" in any case, with an optional sign, as numbers
parse_f64(component) ==
    CASE component = "0" -> Finite(FALSE, 0)
      [] component = "5" -> Finite(FALSE, 5000)
      [] component = "1.5" -> Finite(FALSE, 1500)
      [] component = "-1" -> Finite(TRUE, 1000)
      [] component \in {"inf", "infinity"} ->
            [ok |-> TRUE, finite |-> FALSE, nan |-> FALSE, negative |-> FALSE,
             thousandths |-> 0]
      [] component = "NaN" ->
            [ok |-> TRUE, finite |-> FALSE, nan |-> TRUE, negative |-> FALSE,
             thousandths |-> 0]
      [] OTHER ->
            [ok |-> FALSE, finite |-> FALSE, nan |-> FALSE, negative |-> FALSE,
             thousandths |-> 0]

\* Duration::from_secs_f64 of the value scaled by the unit (lines 69-72): the
\* duration in microseconds; it panics on a negative, infinite or NaN value
from_secs_f64(value, unit) ==
    IF ~value.finite \/ (value.negative /\ value.thousandths # 0)
    THEN [panics |-> TRUE, micros |-> 0]
    ELSE [panics |-> FALSE,
          micros |-> IF unit = "Seconds"
                     THEN value.thousandths * 1000
                     ELSE value.thousandths]

\* lines 57-73: the loop over the components of one line
RECURSIVE parse_line(_, _, _, _)
parse_line(line, k, unit, latencies) ==
    IF k > Len(line)
    THEN [kind |-> "Ok", latencies |-> latencies, value |-> ""]
    ELSE LET component_value == parse_f64(line[k])
         IN  IF ~component_value.ok
             THEN [kind |-> "InvalidLatencyValue", latencies |-> <<>>, value |-> line[k]]
             ELSE LET d == from_secs_f64(component_value, unit)
                  IN  IF d.panics
                      THEN [kind |-> "panic", latencies |-> <<>>, value |-> line[k]]
                      ELSE parse_line(line, k + 1, unit, Append(latencies, d.micros))

ParseResult(kind, dim, latencies, value, line, width, expected) ==
    [kind |-> kind, dimension |-> dim, latencies |-> latencies, value |-> value,
     line |-> line, width |-> width, expected |-> expected]

\* lines 31-37: LatencyMatrix::new, assert_eq!(dimension * dimension, len)
new(dim, latencies) ==
    IF dim * dim # Len(latencies)
    THEN ParseResult("panic", 0, <<>>, "", 0, 0, 0)
    ELSE ParseResult("Ok", dim, latencies, "", 0, 0, 0)

\* lines 50-89: the loop over the lines; line_idx counts every line from 0,
\* dim is the Option dimension
RECURSIVE parse_lines(_, _, _, _, _)
parse_lines(lines, line_idx, unit, dim, latencies) ==
    IF line_idx >= Len(lines)
    THEN new(IF dim = <<>> THEN 0 ELSE dim[1], latencies)
    ELSE LET line == lines[line_idx + 1]
         IN  IF line = <<>>
             THEN parse_lines(lines, line_idx + 1, unit, dim, latencies)
             ELSE LET r == parse_line(line, 1, unit, latencies)
                  IN  IF r.kind # "Ok"
                      THEN ParseResult(r.kind, 0, <<>>, r.value, 0, 0, 0)
                      ELSE IF dim # <<>> /\ Len(line) # dim[1]
                      THEN ParseResult("InvalidLineDimension", 0, <<>>, "",
                                       line_idx, Len(line), dim[1])
                      ELSE parse_lines(lines, line_idx + 1, unit,
                                       <<Len(line)>>, r.latencies)

\* lines 47-90: LatencyMatrix::parse
LatencyMatrix_parse(text, unit) == parse_lines(text, 0, unit, <<>>, <<>>)

\* main.rs lines 165-169 and 209-213: the command reads the matrix file and
\* parses it in milliseconds
ParseMatrix ==
    /\ pc = "parse_matrix"
    /\ LET r == LatencyMatrix_parse(content, "Milliseconds")
       IN  /\ ret' = r
           /\ pc' = CASE r.kind = "Ok" -> "done"
                      [] r.kind = "panic" -> "panic"
                      [] OTHER -> "err"
           /\ matrix' = IF r.kind = "Ok"
                        THEN [dimension |-> r.dimension, latencies |-> r.latencies]
                        ELSE matrix
    /\ UNCHANGED <<cmd, overflow_checks, machines, addr_per_cpu, genVars, upVars,
                   ctxVars, runVars, feVars, hostname_file, hostname_env,
                   infer_job_id, oarstat, content, str>>

-----------------------------------------------------------------------------
(* Signal::from_str (signal.rs).  A char is a one-character string, or the  *)
(* name of its code point for a char outside ASCII: "U+00E9" is the         *)
(* two-byte letter e with acute accent, "U+65E5" the three-byte ideograph   *)
(* for sun.                                                                 *)

SIGNAL_MIN_LEN == 1
SIGNAL_MAX_LEN == 64

\* char::len_utf8
len_utf8(c) ==
    CASE c = "U+00E9" -> 2
      [] c = "U+65E5" -> 3
      [] OTHER -> 1

\* str::len: the length in bytes
RECURSIVE len(_)
len(chars) == IF chars = <<>> THEN 0 ELSE len_utf8(Head(chars)) + len(Tail(chars))

\* char::is_alphanumeric on the chars of the model
is_alphanumeric(c) == c \in {"a", "Z", "0", "9", "U+00E9", "U+65E5"}

\* signal.rs lines 51-53
is_valid_signal_char(c) == is_alphanumeric(c) \/ c = "_" \/ c = "-"

InvalidSignal(chars) == [ok |-> FALSE, signal |-> <<>>, err |-> chars]

\* signal.rs lines 39-48: Signal::from_str
Signal_from_str(chars) ==
    IF \/ len(chars) < SIGNAL_MIN_LEN
       \/ len(chars) > SIGNAL_MAX_LEN
       \/ ~(\A k \in DOMAIN chars : is_valid_signal_char(chars[k]))
    THEN InvalidSignal(chars)
    ELSE [ok |-> TRUE, signal |-> chars, err |-> <<>>]

\* signal.rs lines 16-18: Signal::as_str
as_str(signal) == signal

\* "<signal>".parse::<Signal>()
SignalFromStr ==
    /\ pc = "signal_from_str"
    /\ ret' = Signal_from_str(str)
    /\ pc' = "done"
    /\ UNCHANGED <<inVars, genVars, upVars, ctxVars, runVars, feVars, hostname_file,
                   hostname_env, infer_job_id, oarstat, content, str>>

-----------------------------------------------------------------------------
(* AddressAllocationPolicy::from_str (address_allocation_policy.rs) *)

\* str::strip_suffix: Some(the rest) when the string ends with the suffix
strip_suffix(chars, suffix) ==
    IF /\ Len(chars) >= Len(suffix)
       /\ SubSeq(chars, Len(chars) - Len(suffix) + 1, Len(chars)) = suffix
    THEN <<SubSeq(chars, 1, Len(chars) - Len(suffix))>>
    ELSE <<>>

\* Ok(kind(n.parse()?)): the ParseIntError becomes the Err (lines 20-24)
policy(kind, n) ==
    LET parsed == parse_u32(n)
    IN  IF parsed.ok
        THEN [ok |-> TRUE, kind |-> kind, n |-> [hi |-> parsed.hi, lo |-> parsed.lo]]
        ELSE [ok |-> FALSE, kind |-> "InvalidAddressAllocationPolicy",
              n |-> [hi |-> 0, lo |-> 0]]

\* from_str with the first arm copied into the second
from_str_copied_arm(chars) ==
    IF strip_suffix(chars, <<"/", "c", "p", "u">>) # <<>>
    THEN policy("PerCpu", strip_suffix(chars, <<"/", "c", "p", "u">>)[1])
    ELSE IF strip_suffix(chars, <<"/", "m", "a", "c", "h", "i", "n", "e">>) # <<>>
    THEN policy("PerCpu", strip_suffix(chars, <<"/", "m", "a", "c", "h", "i", "n", "e">>)[1])
    ELSE policy("Total", chars)

\* lines 29-37: AddressAllocationPolicy::from_str
from_str(chars) ==
    IF strip_suffix(chars, <<"/", "c", "p", "u">>) # <<>>
    THEN policy("PerCpu", strip_suffix(chars, <<"/", "c", "p", "u">>)[1])
    ELSE IF strip_suffix(chars, <<"/", "m", "a", "c", "h", "i", "n", "e">>) # <<>>
    THEN policy("PerMachine", strip_suffix(chars, <<"/", "m", "a", "c", "h", "i", "n", "e">>)[1])
    ELSE policy("Total", chars)

\* "<policy>".parse::<AddressAllocationPolicy>()
PolicyFromStr ==
    /\ pc = "policy_from_str"
    /\ ret' = from_str(str)
    /\ pc' = "done"
    /\ UNCHANGED <<inVars, genVars, upVars, ctxVars, runVars, feVars, hostname_file,
                   hostname_env, infer_job_id, oarstat, content, str>>

-----------------------------------------------------------------------------
(* Inputs *)

LatencyValues == <<0, 999, 1000, 1999, 5000, 2500, 2000>>

\* a square matrix of dimension d; pattern 0 is the constant 5 ms matrix
pattern_matrix(d, p) ==
    [dimension |-> d,
     latencies |-> [k \in 1..(d * d) |->
        LET r == (k - 1) \div d
            c == (k - 1) % d
        IN  IF p = 0
            THEN 5000
            ELSE LatencyValues[((r * p + c * (p + 1)) % Len(LatencyValues)) + 1]]]

Dimensions == {0, 4, 5, 8, 12, 13}

MachineLists == UNION {[1..k -> Machines] : k \in 0..MaxMachines}

\* small counts, and counts whose product with cpus() exceeds u32
AddrPerCpuValues == (0..MaxAddrPerCpu) \cup {1073741824, 1073741825}

GenInit ==
    /\ addresses = <<>>
    /\ configs = <<>>
    /\ mi = 1
    /\ latencies_buckets = <<>>
    /\ phase = "none"
    /\ tasks = <<>>

\* nothing spawned, no machine holds anything of the overlay
RunInit ==
    /\ scheduled = {}
    /\ procs = {}
    /\ error = NoError
    /\ remote = [m \in Machines |-> Clean]

\* for_each is not called
NoForEach ==
    /\ limit_env = <<>>
    /\ limit = 0
    /\ sem = 0
    /\ futures = <<>>
    /\ results = <<>>

\* no parser is called, the context is given
NoArgs ==
    /\ hostname_file = <<>>
    /\ hostname_env = <<>>
    /\ infer_job_id = FALSE
    /\ oarstat = <<>>
    /\ content = <<>>
    /\ str = <<>>
    /\ ret = <<>>

\* the machines of a job: no machine twice
JobMachineLists ==
    {ms \in MachineLists : \A p, q \in DOMAIN ms : p # q => ms[p] # ms[q]}

\* Context (main.rs lines 111-116): where the command runs, --job-id and
\* --frontend-hostname given or not
Contexts ==
    [node : {"frontend", "unknown"} \cup Machines,
     job_id : {<<>>, <<36627>>},
     frontend_hostname : {<<>>, <<"frontend">>}]

\* net preview: the synthesiser on the machines and matrix of the command line
InitPreview ==
    /\ cmd = "preview"
    /\ pc = "gather"
    /\ overflow_checks \in BOOLEAN
    /\ machines \in MachineLists
    /\ addr_per_cpu \in AddrPerCpuValues
    /\ matrix \in {pattern_matrix(d, p) : d \in Dimensions, p \in 0..MaxPattern}
    /\ node = "unknown"
    /\ job_id = <<>>
    /\ frontend_hostname = <<>>

\* net up, net down, net show and run on the machines of a job
InitJob ==
    /\ pc = "list_machines"
    /\ overflow_checks = FALSE
    /\ machines \in JobMachineLists
    /\ \/ /\ cmd = "up"
          /\ addr_per_cpu \in 0..MaxAddrPerCpu
          /\ matrix \in {pattern_matrix(d, 1) : d \in {4, 12}}
       \/ /\ cmd \in {"down", "show", "run"}
          /\ addr_per_cpu = 0
          /\ matrix = pattern_matrix(0, 0)
    /\ \E c \in Contexts :
          /\ node = c.node
          /\ job_id = c.job_id
          /\ frontend_hostname = c.frontend_hostname

Init ==
    /\ InitPreview \/ InitJob
    /\ GenInit
    /\ RunInit
    /\ NoForEach
    /\ NoArgs

Next ==
    \/ JobListMachines
    \/ Gather
    \/ GenerateMachine
    \/ Return
    \/ ParseSchedule
    \/ Spawn
    \/ TaskStart
    \/ TaskEnd
    \/ Join
    \/ ForeachNext
    \/ ForeachEnd

Spec == Init /\ [][Next]_vars

-----------------------------------------------------------------------------
(* Plans with more than DefaultClass distinct latencies on one machine *)

BigAddrPerCpu == 26

\* every entry a different whole number of milliseconds
distinct_matrix(d) ==
    [dimension |-> d,
     latencies |-> [k \in 1..(d * d) |-> (k - 1) * 1000]]

InitBig ==
    /\ cmd \in {"up", "preview"}
    /\ pc = "gather"
    /\ overflow_checks = FALSE
    /\ machines = <<"oddish-1">>
    /\ addr_per_cpu \in (0..MaxAddrPerCpu) \cup {BigAddrPerCpu}
    /\ matrix \in {distinct_matrix(n * cpus("oddish-1")) : n \in {1, 2, BigAddrPerCpu}}
    /\ node = "frontend"
    /\ job_id = <<36627>>
    /\ frontend_hostname = <<>>
    /\ GenInit
    /\ RunInit
    /\ NoForEach
    /\ NoArgs

NextBig ==
    \/ Gather
    \/ GenerateMachine
    \/ Return
    \/ Spawn
    \/ TaskStart
    \/ TaskEnd
    \/ Join

SpecBig == InitBig /\ [][NextBig]_vars

-----------------------------------------------------------------------------
(* Address plans of up to two octets of local index: only the gathering     *)
(* loop of machine_generate_configs is run                                  *)

PlanAddrPerCpu ==
    {0, 1, 64, 8128, 16130, 16256, 16257, 1073741824, 1073741825}

InitPlan ==
    /\ cmd = "preview"
    /\ pc = "gather"
    /\ overflow_checks \in BOOLEAN
    /\ machines \in MachineLists
    /\ addr_per_cpu \in PlanAddrPerCpu
    /\ matrix = pattern_matrix(0, 0)
    /\ node = "unknown"
    /\ job_id = <<>>
    /\ frontend_hostname = <<>>
    /\ GenInit
    /\ RunInit
    /\ NoForEach
    /\ NoArgs

SpecPlan == InitPlan /\ [][Gather]_vars

-----------------------------------------------------------------------------
(* Sequences of net up and net down on the machines of one job *)

InitLife ==
    /\ cmd \in {"up", "down"}
    /\ pc = "list_machines"
    /\ overflow_checks = FALSE
    /\ machines \in JobMachineLists
    /\ addr_per_cpu \in 0..MaxAddrPerCpu
    /\ matrix = pattern_matrix(12, 1)
    /\ node = "frontend"
    /\ job_id = <<36627>>
    /\ frontend_hostname = <<>>
    /\ GenInit
    /\ RunInit
    /\ NoForEach
    /\ NoArgs

NextLife ==
    \/ JobListMachines
    \/ Gather
    \/ GenerateMachine
    \/ Return
    \/ Spawn
    \/ TaskStart
    \/ TaskEnd
    \/ Join
    \/ NewCommand

SpecLife == InitLife /\ [][NextLife]_vars

-----------------------------------------------------------------------------
(* for_each on a list of machines *)

InitForEach ==
    /\ cmd = "for_each"
    /\ pc = "for_each"
    /\ overflow_checks = FALSE
    /\ machines \in MachineLists
    /\ addr_per_cpu = 0
    /\ matrix = pattern_matrix(0, 0)
    /\ node = "frontend"
    /\ job_id = <<>>
    /\ frontend_hostname = <<>>
    /\ GenInit
    /\ RunInit
    /\ limit_env \in {<<>>, <<"0">>, <<"1">>, <<"2">>, <<"3">>, <<"many">>}
    /\ limit = 0
    /\ sem = 0
    /\ futures = <<>>
    /\ results = <<>>
    /\ NoArgs

NextForEach ==
    \/ ForEach
    \/ Acquire
    \/ Yield
    \/ ForEachReturn

SpecForEach == InitForEach /\ [][NextForEach]_vars

\* the runtime polls every future that can make progress and every task
\* ends: the futures are polled by FuturesUnordered whenever they are woken,
\* a waiter of the semaphore is woken when a permit is released
SpecForEachFair ==
    /\ InitForEach
    /\ [][NextForEach]_vars
    /\ WF_vars(ForEach)
    /\ WF_vars(Acquire)
    /\ WF_vars(Yield)
    /\ WF_vars(ForEachReturn)

-----------------------------------------------------------------------------
(* Node detection on the host names a command can be started under *)

HostNames == {"frontend", "frontend\n", "oddish-1", "gengar-1\n", "laptop", ""}

OptionalHostNames == {<<>>} \cup {<<h>> : h \in HostNames}

InitNode ==
    /\ cmd \in {"up", "down", "show", "run"}
    /\ pc = "context"
    /\ overflow_checks = FALSE
    /\ machines = <<>>
    /\ addr_per_cpu = 0
    /\ matrix = pattern_matrix(0, 0)
    /\ node = "unknown"
    /\ job_id \in {<<>>, <<36627>>}
    /\ frontend_hostname \in {<<>>, <<"frontend">>}
    /\ GenInit
    /\ RunInit
    /\ NoForEach
    /\ hostname_file \in OptionalHostNames
    /\ hostname_env \in OptionalHostNames
    /\ infer_job_id = FALSE
    /\ oarstat = <<>>
    /\ content = <<>>
    /\ str = <<>>
    /\ ret = <<>>

SpecNode == InitNode /\ [][ContextFromCommon]_vars

-----------------------------------------------------------------------------
(* Context::job_id on the answers of the scheduler.  Every job of an answer *)
(* has a numeric key and a state, as oarstat prints them.                   *)

Job(key, state) == [key |-> key, state |-> <<state>>]

OarstatObjects ==
    {<<>>,
     <<Job(<<"7">>, "Running")>>,
     <<Job(<<"7">>, "Waiting")>>,
     <<Job(<<"1", "2">>, "Running"), Job(<<"7">>, "Running")>>,
     <<Job(<<"1", "2">>, "Waiting"), Job(<<"7">>, "Running")>>,
     <<Job(<<"1", "2">>, "Running"), Job(<<"7">>, "Terminated")>>}

OarstatStdouts ==
    {[kind |-> "object", jobs |-> jobs] : jobs \in OarstatObjects}
        \cup {[kind |-> k, jobs |-> <<>>] : k \in {"hash_error", "scalar", "invalid"}}

OarstatAnswers ==
    {<<>>} \cup {<<[success |-> TRUE, stdout |-> o]>> : o \in OarstatStdouts}
           \cup {<<[success |-> FALSE, stdout |-> [kind |-> "invalid", jobs |-> <<>>]]>>}

InitJobId ==
    /\ cmd = "job_id"
    /\ pc = "job_id"
    /\ overflow_checks = FALSE
    /\ machines = <<>>
    /\ addr_per_cpu = 0
    /\ matrix = pattern_matrix(0, 0)
    /\ \E c \in Contexts :
          /\ node = c.node
          /\ job_id = c.job_id
          /\ frontend_hostname = c.frontend_hostname
    /\ GenInit
    /\ RunInit
    /\ NoForEach
    /\ hostname_file = <<>>
    /\ hostname_env = <<>>
    /\ infer_job_id \in BOOLEAN
    /\ oarstat \in OarstatAnswers
    /\ content = <<>>
    /\ str = <<>>
    /\ ret = <<>>

SpecJobId == InitJobId /\ [][JobId]_vars

-----------------------------------------------------------------------------
(* LatencyMatrix::parse on texts of a few lines *)

MaxRows == 2
MaxWidth == 2

Tokens == {"0", "5", "1.5", "-1", "inf", "infinity", "NaN", "abc"}

Lines == UNION {[1..k -> Tokens] : k \in 0..MaxWidth}

Contents == UNION {[1..k -> Lines] : k \in 0..MaxRows}

InitParse ==
    /\ cmd \in {"up", "preview"}
    /\ pc = "parse_matrix"
    /\ overflow_checks = FALSE
    /\ machines = <<>>
    /\ addr_per_cpu = 0
    /\ matrix = pattern_matrix(0, 0)
    /\ node = "unknown"
    /\ job_id = <<>>
    /\ frontend_hostname = <<>>
    /\ GenInit
    /\ RunInit
    /\ NoForEach
    /\ hostname_file = <<>>
    /\ hostname_env = <<>>
    /\ infer_job_id = FALSE
    /\ oarstat = <<>>
    /\ content \in Contents
    /\ str = <<>>
    /\ ret = <<>>

SpecParse == InitParse /\ [][ParseMatrix]_vars

-----------------------------------------------------------------------------
(* Signal::from_str on strings around the length limits *)

SignalChars ==
    {"a", "Z", "0", "9", "_", "-", "U+00E9", "U+65E5", " ", "@", ".", "/", "!"}

SignalLengths == {0, 1, 2, 21, 22, 31, 32, 33, 62, 63, 64, 65}

repeat(c, n) == [k \in 1..n |-> c]

SignalStrings ==
    {repeat(c, n) \o rest : c \in SignalChars, n \in SignalLengths,
                            rest \in {<<>>, <<"a">>, <<"!">>}}

InitSignal ==
    /\ cmd = "signal"
    /\ pc = "signal_from_str"
    /\ overflow_checks = FALSE
    /\ machines = <<>>
    /\ addr_per_cpu = 0
    /\ matrix = pattern_matrix(0, 0)
    /\ node = "unknown"
    /\ job_id = <<>>
    /\ frontend_hostname = <<>>
    /\ GenInit
    /\ RunInit
    /\ NoForEach
    /\ hostname_file = <<>>
    /\ hostname_env = <<>>
    /\ infer_job_id = FALSE
    /\ oarstat = <<>>
    /\ content = <<>>
    /\ str \in SignalStrings
    /\ ret = <<>>

SpecSignal == InitSignal /\ [][SignalFromStr]_vars

-----------------------------------------------------------------------------
(* AddressAllocationPolicy::from_str on numbers and suffixes, those of the  *)
(* tests included                                                           *)

PolicyNumbers ==
    {<<>>,
     <<"0">>,
     <<"5">>,
     <<"1", "0">>,
     <<"0", "0", "7">>,
     <<"+", "5">>,
     <<"+", "0">>,
     <<"-", "5">>,
     <<"+">>,
     <<"-">>,
     <<"+", "+", "5">>,
     <<"a", "b", "c">>,
     <<"1", "0", ".", "5">>,
     <<"4", "2", "9", "4", "9", "6", "7", "2", "9", "5">>,
     <<"4", "2", "9", "4", "9", "6", "7", "2", "9", "6">>,
     <<"+", "4", "2", "9", "4", "9", "6", "7", "2", "9", "5">>,
     <<"+", "4", "2", "9", "4", "9", "6", "7", "2", "9", "6">>,
     <<"0", "4", "2", "9", "4", "9", "6", "7", "2", "9", "5">>,
     <<"9", "9", "9", "9", "9", "9", "9", "9", "9", "9", "9", "9", "9">>,
     <<"1", "8", "4", "4", "6", "7", "4", "4", "0", "7", "3", "7", "0", "9", "5", "5", "1", "6", "1", "6">>,
     <<" ", "1", "0">>,
     <<"1", "0", " ">>,
     <<"1", " ", "0">>,
     <<"6", "5", "5", "3", "5">>,
     <<"6", "5", "5", "3", "6">>,
     <<"4", "2", "9", "4", "9", "0", "1", "7", "6", "0">>,
     <<"4", "2", "9", "4", "9", "6", "7", "2", "9">>}

PolicySuffixes ==
    {<<>>,
     <<"/", "c", "p", "u">>,
     <<"/", "m", "a", "c", "h", "i", "n", "e">>,
     <<"/", "n", "o", "d", "e">>,
     <<"/", "c", "o", "r", "e">>,
     <<"/">>,
     <<" ", "/", "c", "p", "u">>,
     <<"/", " ", "c", "p", "u">>,
     <<"/", "c", "p", "u", " ">>,
     <<"/", "c", "p", "u", "/", "c", "p", "u">>,
     <<"/", "c", "p", "u", "/", "m", "a", "c", "h", "i", "n", "e">>,
     <<"/", "C", "P", "U">>,
     <<"/", "m", "a", "c", "h", "i", "n", "e", "/", "m", "a", "c", "h", "i", "n", "e">>}

InitPolicy ==
    /\ cmd = "policy"
    /\ pc = "policy_from_str"
    /\ overflow_checks = FALSE
    /\ machines = <<>>
    /\ addr_per_cpu = 0
    /\ matrix = pattern_matrix(0, 0)
    /\ node = "unknown"
    /\ job_id = <<>>
    /\ frontend_hostname = <<>>
    /\ GenInit
    /\ RunInit
    /\ NoForEach
    /\ hostname_file = <<>>
    /\ hostname_env = <<>>
    /\ infer_job_id = FALSE
    /\ oarstat = <<>>
    /\ content = <<>>
    /\ str \in {n \o suffix : n \in PolicyNumbers, suffix \in PolicySuffixes}
    /\ ret = <<>>

SpecPolicy == InitPolicy /\ [][PolicyFromStr]_vars

-----------------------------------------------------------------------------
(* Properties *)

\* a MachineConfig has just been pushed: it is configs[mi - 1], and
\* latencies_buckets is the bucket list it was built from
Pushed == pc = "machine" /\ mi > 1

LastConfig == configs[mi - 1]

\* machine_generate_configs has returned its configs
Generated ==
    /\ cmd \in {"up", "preview"}
    /\ mi > Len(machines)
    /\ pc \in {"build", "clean", "configure", "done", "err"}

\* g: the global index of an address, its position in the machine-major enumeration
GlobalIndex(a) == (CHOOSE p \in DOMAIN addresses : addresses[p] = a) - 1

\* the planned addresses are pairwise distinct.  A machine list that repeats a
\* machine plans an address twice; such a run pushes configs for the machines
\* before the repeated one and then panics (main.rs:793), it returns nothing.
PlanDistinct == Cardinality(Range(addresses)) = Len(addresses)

\* C1: in the nft script of every machine config of a plan with distinct
\* addresses, every ordered pair (src, dst) with src owned by the machine, dst
\* any planned address and dst # src occurs exactly once in mark_pairs; no
\* element has src = dst or a src the machine does not own.
C1_MarkPairsExactlyOnce ==
    (Pushed /\ PlanDistinct) =>
        LET el == LastConfig.nft_script
            own == Range(LastConfig.addresses)
        IN  /\ \A a \in own, b \in Range(addresses) :
                  a # b => Cardinality({q \in DOMAIN el :
                                          el[q].src = a /\ el[q].dst = b}) = 1
            /\ \A q \in DOMAIN el : el[q].src # el[q].dst /\ el[q].src \in own

\* C1 witness: the config of the second machine of a plan, with mark pairs
C1_Witness ==
    /\ Pushed
    /\ PlanDistinct
    /\ mi = 3
    /\ Len(LastConfig.addresses) >= 4
    /\ Len(addresses) > Len(LastConfig.addresses)
    /\ Len(LastConfig.nft_script) = Len(LastConfig.addresses) * (Len(addresses) - 1)

\* C2: in a plan with distinct addresses, the mark of every element (src, dst)
\* of mark_pairs is the 1-based position, in the machine's bucket list, of
\* matrix[g(src)][g(dst)] truncated to whole milliseconds.
C2_MarkIsBucketOfTruncatedLatency ==
    (Pushed /\ PlanDistinct) =>
        \A q \in DOMAIN LastConfig.nft_script :
            LET e == LastConfig.nft_script[q]
                micros == matrix.latencies[
                    matrix.dimension * GlobalIndex(e.src) + GlobalIndex(e.dst) + 1]
                millis == micros \div 1000
            IN  /\ e.mark \in 1..Len(latencies_buckets)
                /\ latencies_buckets[e.mark] = millis
                /\ \A k \in 1..Len(latencies_buckets) :
                      latencies_buckets[k] = millis => k = e.mark

\* C2 witness: a config with several buckets and a pair whose latency is not a
\* whole number of milliseconds
C2_Witness ==
    /\ Pushed
    /\ PlanDistinct
    /\ Len(latencies_buckets) >= 3
    /\ \E q \in DOMAIN LastConfig.nft_script :
          LET e == LastConfig.nft_script[q]
          IN  matrix.latencies[matrix.dimension * GlobalIndex(e.src)
                               + GlobalIndex(e.dst) + 1] % 1000 # 0

\* the tc lines of `op` on `dev` whose class id is one of `marks`
TcLines(cfg, op, dev, marks) ==
    {q \in DOMAIN cfg.tc_commands :
        /\ cfg.tc_commands[q].op = op
        /\ cfg.tc_commands[q].dev = dev
        /\ cfg.tc_commands[q].classid \in marks}

\* C3: for every mark k used in mark_pairs and each of the interfaces lo and
\* the machine's own, the tc program has exactly one class 1:k, exactly one
\* netem qdisc parent 1:k handle (k+1): with the delay of bucket k, and exactly
\* one filter handle k fw flowid 1:k.  (A set of lines holds exactly one line
\* per mark iff it has as many lines as there are marks and their class ids
\* are all the marks.)
C3_OneClassQdiscFilterPerMark ==
    Pushed =>
        LET cfg == LastConfig
            tc == cfg.tc_commands
            marks == {cfg.nft_script[q].mark : q \in DOMAIN cfg.nft_script}
            OnePerMark(L) ==
                Cardinality(L) = Cardinality(marks) /\ {tc[q].classid : q \in L} = marks
        IN  \A dev \in {"lo", interface(cfg.machine)} :
                /\ OnePerMark(TcLines(cfg, "class", dev, marks))
                /\ OnePerMark(TcLines(cfg, "qdisc_netem", dev, marks))
                /\ OnePerMark(TcLines(cfg, "filter", dev, marks))
                /\ \A q \in TcLines(cfg, "qdisc_netem", dev, marks) :
                      /\ tc[q].handle = tc[q].classid + 1
                      /\ tc[q].delay = latencies_buckets[tc[q].classid]
                /\ \A q \in TcLines(cfg, "filter", dev, marks) :
                      tc[q].handle = tc[q].classid

\* C4: every machine config declares the default class 1:9999 exactly once per
\* interface, and no mark of mark_pairs is 9999.
C4_DefaultClassReserved ==
    Pushed =>
        LET cfg == LastConfig
        IN  /\ \A dev \in {"lo", interface(cfg.machine)} :
                  Cardinality(TcLines(cfg, "class", dev, {DefaultClass})) = 1
            /\ \A q \in DOMAIN cfg.nft_script : cfg.nft_script[q].mark # DefaultClass

\* the number of addresses planned for the machine at position p of the list
planned(p) == addr_count(machines[p], addr_per_cpu, overflow_checks).count

\* the number of addresses planned for the machines before position p
RECURSIVE planned_before(_)
planned_before(p) == IF p = 1 THEN 0 ELSE planned_before(p - 1) + planned(p - 1)

\* C5: the i-th address (i = 0..Nm-1) planned for machine m is
\* 10 . index(m) . (i div 254) . ((i mod 254) + 1), its last octet is in 1..254,
\* and local index 254 is 10.index(m).1.1.
C5_AddressEncoding ==
    pc = "machine" =>
        \A p \in DOMAIN machines :
            /\ \A i \in 0..(planned(p) - 1) :
                  LET a == addresses[planned_before(p) + i + 1]
                  IN  /\ a = <<10, index(machines[p]), i \div 254, (i % 254) + 1>>
                      /\ a[4] \in 1..254
            /\ planned(p) > 254 =>
                  addresses[planned_before(p) + 255] = <<10, index(machines[p]), 1, 1>>

\* C5 witness: a plan in which a machine has more than 254 addresses
C5_Witness ==
    /\ pc = "machine"
    /\ \E p \in DOMAIN machines :
          planned(p) > 254 /\ addresses[planned_before(p) + 255][3] = 1

\* C6: when machine_generate_configs returns, no address occurs twice in the
\* concatenation of the per-machine address lists, and the global index of
\* every address is its position in the machine-major enumeration.
C6_AddressesDistinct ==
    Generated =>
        /\ \A p, q \in DOMAIN addresses : p # q => addresses[p] # addresses[q]
        /\ \A p \in DOMAIN addresses : address_to_index(addresses, addresses[p]) = p - 1
        /\ \A k \in DOMAIN configs : \A i \in DOMAIN configs[k].addresses :
              configs[k].addresses[i] = addresses[planned_before(k) + i]
        /\ Len(configs) = Len(machines)

\* C6 witness: configs returned for two machines
C6_Witness ==
    /\ Generated
    /\ Len(machines) = 2
    /\ Len(addresses) = cpus(machines[1]) + cpus(machines[2])

\* C8: up starts a remote step only when the matrix dimension equals the
\* number of planned overlay addresses.
C8_UpValidatesDimension ==
    (cmd = "up" /\ phase # "none") => matrix.dimension = Len(addresses)

\* C9: planning succeeds only if no machine has more than 254 * 254 addresses
\* and no machine index exceeds 254.
C9_PlanningRejectsOverflow ==
    pc = "machine" =>
        \A p \in DOMAIN machines :
            planned(p) <= 254 * 254 /\ index(machines[p]) <= 254

PolicyKinds == {"PerCpu", "PerMachine", "Total"}

\* the count `count` is the one policy kind(n) gives a machine among nmachines;
\* n * cpus is the exact product, which a u32 count equals only if it fits
FollowsPolicy(kind, n, machine, nmachines, count) ==
    CASE kind = "PerCpu" ->
            /\ ~MulU32(n, cpus(machine)).overflow
            /\ count = MulU32(n, cpus(machine)).value
      [] kind = "PerMachine" -> count = n
      [] kind = "Total" -> count = (n + nmachines - 1) \div nmachines

\* C10: the number of addresses planned for every machine is n * cpus(m) under
\* PerCpu(n), n under PerMachine(n) and ceil(n / |machines|) under Total(n).
C10_CountFollowsPolicy ==
    pc = "machine" =>
        \A kind \in PolicyKinds : \A p \in DOMAIN machines :
            FollowsPolicy(kind, addr_per_cpu, machines[p], Len(machines), planned(p))

-----------------------------------------------------------------------------
(* Properties of the remote steps *)

\* the processes the command has spawned for `step` on `machine`
ProcsOf(step, machine) == {q \in procs : q.step = step /\ q.machine = machine}

\* C11: during up, a machine's clean process exists only if its build process
\* has exited successfully, and its configuration (apply) process exists only
\* if its clean process has exited.
C11_StrictOrderPerMachine ==
    cmd = "up" =>
        \A q \in procs :
            /\ q.step = "clean" =>
                  \E b \in ProcsOf("build", q.machine) : b.exit = "0"
            /\ q.step = "configure" =>
                  \E c \in ProcsOf("clean", q.machine) : c.exit # "running"

\* C11 witness: up on two machines has started the configuration of one
C11_Witness ==
    /\ cmd = "up"
    /\ Len(machines) = 2
    /\ ProcsOf("configure", machines[2]) # {}

\* C12: when down has returned success, no machine of the job holds any part
\* of the footprint (address, route, root qdisc, nft table), whatever ups and
\* downs came before.
C12_DownLeavesNothing ==
    (cmd = "down" /\ pc = "done") =>
        \A m \in Range(machines) : remote[m] = Clean

\* C13: an operation does not return success when a script run in the helper
\* container (cleanup or configuration) has exited with a non-zero status.
C13_ScriptFailureIsError ==
    pc = "done" =>
        \A q \in procs : q.step \in {"clean", "configure"} => q.exit # "1"

\* C14: down never invokes the synthesiser and never runs a configuration
\* script: it resolves the machines, builds the helper image and cleans.
C14_DownOnlyBuildsAndCleans ==
    cmd = "down" =>
        /\ pc \in {"list_machines", "build", "clean", "done", "err", "panic"}
        /\ phase \in {"none", "build", "clean"}
        /\ \A q \in procs : q.step \in {"oarstat", "build", "clean"}
        /\ addresses = <<>>
        /\ configs = <<>>

\* C14 witness: down has returned success after cleaning two machines
C14_Witness ==
    /\ cmd = "down"
    /\ pc = "done"
    /\ Len(machines) = 2
    /\ \A m \in Range(machines) : \E q \in ProcsOf("clean", m) : q.exit = "0"

\* the futures that hold a permit
Running == {p \in DOMAIN futures : futures[p] = "running"}

\* C15: with a limit L >= 1 at most L futures hold a permit at any moment;
\* with limit 0, or OAR_P2P_CONCURRENCY_LIMIT unset, a future that asks for a
\* permit never has to wait.
C15_BoundedConcurrency ==
    pc = "for_each_poll" =>
        /\ limit_env = <<>> => limit = 0
        /\ limit >= 1 => Cardinality(Running) <= limit
        /\ limit = 0 => sem > 0
        /\ sem = permits(limit) - Cardinality(Running)

\* C15 witness: every permit of a limit is taken and a future waits for one
C15_Witness ==
    /\ pc = "for_each_poll"
    /\ limit >= 1
    /\ Cardinality(Running) = limit
    /\ \E p \in DOMAIN futures : futures[p] = "pending"

\* C16: the error a command returns for a failed task of a fan-out carries the
\* annotation "running task on machine <hostname>" of a machine of the job.
C16_FailuresNameTheMachine ==
    (pc = "err" /\ error.msg \in {task_error("err_spawn").msg, task_error("err_exit").msg}) =>
        \E k \in DOMAIN error.context :
            /\ error.context[k].text = "running task on machine"
            /\ error.context[k].machine \in Range(machines)

\* C17: as soon as a task of a fan-out has failed, the fan-out can return the
\* error: it does not wait for the tasks of the other machines.
C17_FirstErrorShortCircuits ==
    (phase \in Steps /\ \E p \in DOMAIN tasks : tasks[p] \in {"err_spawn", "err_exit"})
        => ENABLED (Join \/ ForeachNext)

\* the word of a command line that follows the word `option`, if any
Follows(argv, option, word) ==
    \E k \in 1..(Len(argv) - 1) : argv[k] = option /\ argv[k + 1] = word

\* the script command that the transport carries
Carried(step) == IF step \in {"clean", "configure"} THEN docker_run ELSE <<"bash">>

\* C18: a script for machine m is run through ssh to m's hostname from the
\* frontend and from another machine, with no ssh on m itself, and through
\* ssh -J frontendHostname to m's hostname from an unknown node; only an
\* unknown node uses a jump host.
C18_TransportSelection ==
    \A q \in procs :
        q.step \in Steps \ {"copy"} =>
            LET tail == Carried(q.step)
                n == Len(q.argv) - Len(tail)
                viaSsh == /\ n >= 2
                          /\ q.argv[1] = "ssh"
                          /\ q.argv[n] = hostname(q.machine)
            IN  /\ n >= 0
                /\ SubSeq(q.argv, n + 1, Len(q.argv)) = tail
                /\ CASE node = "frontend" -> viaSsh /\ "-J" \notin Range(q.argv)
                     [] node = "unknown" ->
                           /\ viaSsh
                           /\ frontend_hostname # <<>>
                           /\ Follows(q.argv, "-J", frontend_hostname[1])
                     [] node = q.machine -> n = 0
                     [] OTHER -> viaSsh /\ "-J" \notin Range(q.argv)

\* C18 witness: a script has been sent from an unknown node through the
\* jump host
C18_Witness ==
    /\ node = "unknown"
    /\ \E q \in procs : q.step = "clean" /\ Follows(q.argv, "-J", "frontend")

C20_SshDisablesHostKeyChecking ==
    \A q \in procs :
        (q.argv # <<>> /\ q.argv[1] = "ssh") =>
            /\ Follows(q.argv, "-o", "StrictHostKeyChecking=no")
            /\ Follows(q.argv, "-o", "UserKnownHostsFile=/dev/null")

-----------------------------------------------------------------------------
(* C21: node detection never fails and is a function of the host name: the  *)
(* name is the content of the hostname file if readable, else HOSTNAME,     *)
(* else the empty string; the node is Frontend for "frontend", Machine(m)   *)
(* for the registry hostname of m, Unknown otherwise.                       *)

HostName ==
    IF hostname_file # <<>>
    THEN hostname_file[1]
    ELSE IF hostname_env # <<>> THEN hostname_env[1] ELSE ""

C21_NodeDetectionNeverFails ==
    pc # "context" =>
        /\ pc # "err"
        /\ node = (IF HostName = "frontend"
                   THEN "frontend"
                   ELSE IF HostName \in Machines THEN HostName ELSE "unknown")

-----------------------------------------------------------------------------
(* C22: Context::job_id returns the explicit job id whenever one is set,    *)
(* without querying the scheduler; otherwise, with inference enabled, the   *)
(* single running job's id when exactly one job is running and an error     *)
(* when zero or more than one is running; otherwise a 'missing job id'      *)
(* error.                                                                   *)

\* the ids of the jobs that the scheduler holds as running
RunningJobs ==
    IF oarstat = <<>> \/ oarstat[1].stdout.kind # "object"
    THEN {}
    ELSE {k \in DOMAIN oarstat[1].stdout.jobs :
             oarstat[1].stdout.jobs[k].state = <<"Running">>}

RunningId ==
    LET key == oarstat[1].stdout.jobs[CHOOSE k \in RunningJobs : TRUE].key
    IN  parse_u32(key).hi * Half + parse_u32(key).lo

\* the node can ask the scheduler and the scheduler answers
Queried ==
    /\ node \notin Machines
    /\ node = "unknown" => frontend_hostname # <<>>
    /\ oarstat # <<>>
    /\ oarstat[1].success

\* the claim as stated
C22_JobIdCases ==
    pc = "done" =>
        /\ job_id # <<>> => ret = OkId(job_id[1]) /\ procs = {}
        /\ job_id = <<>> /\ infer_job_id =>
              IF Cardinality(RunningJobs) = 1
              THEN ret = OkId(RunningId)
              ELSE ~ret.ok
        /\ job_id = <<>> /\ ~infer_job_id => ret = ErrId("missing job id")

\* C22 as amended: the single running job's id is returned when the
\* scheduler can be queried from the node and answers; in every other case
\* of inference the result is an error
C22_JobIdCasesWhenQueried ==
    pc = "done" =>
        /\ job_id # <<>> => ret = OkId(job_id[1]) /\ procs = {}
        /\ job_id = <<>> /\ infer_job_id =>
              IF Queried /\ Cardinality(RunningJobs) = 1
              THEN ret = OkId(RunningId)
              ELSE ~ret.ok
        /\ job_id = <<>> /\ ~infer_job_id => ret = ErrId("missing job id")

C22_Witness ==
    /\ pc = "done"
    /\ job_id = <<>>
    /\ infer_job_id
    /\ Queried
    /\ Len(oarstat[1].stdout.jobs) = 2
    /\ Cardinality(RunningJobs) = 1
    /\ ret = OkId(7)

-----------------------------------------------------------------------------
(* C23: LatencyMatrix::parse fails with the error value InvalidLatencyValue *)
(* for every token that is not a finite non-negative number (negative       *)
(* numbers, 'inf', 'infinity', 'NaN' included); it never accepts such a     *)
(* token and never aborts on it.                                            *)

\* the tokens of the model that denote a finite non-negative number
FiniteNonNegative == {"0", "5", "1.5"}

BadTokens(text) ==
    {text[l][k] : <<l, k>> \in {x \in (DOMAIN text) \X (1..MaxWidth + 1) :
                                   x[2] <= Len(text[x[1]])}} \ FiniteNonNegative

\* every non-empty line as wide as the first one
EqualWidth(text) ==
    \A l1, l2 \in DOMAIN text :
        text[l1] # <<>> /\ text[l2] # <<>> => Len(text[l1]) = Len(text[l2])

C23_BadTokenIsErrorValue ==
    pc # "parse_matrix" /\ BadTokens(content) # {} =>
        /\ pc = "err"
        /\ EqualWidth(content) =>
              ret.kind = "InvalidLatencyValue" /\ ret.value \in BadTokens(content)

-----------------------------------------------------------------------------
(* C24: every LatencyMatrix is square: LatencyMatrix::parse either returns  *)
(* an error value or a matrix of exactly dimension * dimension latencies,   *)
(* the number of non-empty rows being the row width; a text of equal-width  *)
(* rows whose count differs from the width yields no matrix.                *)

Rows(text) == {l \in DOMAIN text : text[l] # <<>>}

C24_ParseYieldsErrorOrSquare ==
    pc # "parse_matrix" /\ BadTokens(content) = {} =>
        \/ pc = "err" /\ ret.kind \in {"InvalidLineDimension", "InvalidLatencyValue"}
        \/ /\ pc = "done"
           /\ ret.kind = "Ok"
           /\ Len(matrix.latencies) = matrix.dimension * matrix.dimension
           /\ \A l \in Rows(content) : Len(content[l]) = Cardinality(Rows(content))
           /\ matrix.dimension = Cardinality(Rows(content))

-----------------------------------------------------------------------------
(* C25: Signal::from_str accepts a string exactly when it is between 1 and  *)
(* 64 characters long and every character is alphanumeric, '-' or '_'; an   *)
(* accepted signal's as_str equals the input; every other string is         *)
(* rejected with InvalidSignal.                                             *)

C25_SignalAcceptedExactlyWhenValid ==
    pc = "done" =>
        /\ ret.ok <=> /\ Len(str) >= 1
                      /\ Len(str) <= 64
                      /\ \A k \in DOMAIN str : is_valid_signal_char(str[k])
        /\ ret.ok => as_str(ret.signal) = str
        /\ ~ret.ok => ret = InvalidSignal(str)

-----------------------------------------------------------------------------
(* C26: AddressAllocationPolicy::from_str returns PerCpu(n) for '<n>/cpu',  *)
(* PerMachine(n) for '<n>/machine' and Total(n) for '<n>', <n> being the    *)
(* decimal text of an integer in 0..2^32-1, and an error for every other    *)
(* string (another suffix, an empty or non-decimal number, a value of 2^32  *)
(* or more, whitespace anywhere).                                           *)

EndsWith(chars, suffix) ==
    /\ Len(chars) >= Len(suffix)
    /\ \A k \in 1..Len(suffix) : chars[Len(chars) - Len(suffix) + k] = suffix[k]

\* the kind the suffix of the string asks for, and the text before the suffix
PolicyKind ==
    CASE EndsWith(str, <<"/", "c", "p", "u">>) -> "PerCpu"
      [] EndsWith(str, <<"/", "m", "a", "c", "h", "i", "n", "e">>) -> "PerMachine"
      [] OTHER -> "Total"

PolicyNumber ==
    SubSeq(str, 1, Len(str) - (CASE PolicyKind = "PerCpu" -> 4
                                 [] PolicyKind = "PerMachine" -> 8
                                 [] OTHER -> 0))

IsDigits(chars) == chars # <<>> /\ \A k \in DOMAIN chars : chars[k] \in Range(Digits)

DigitOf(c) == (CHOOSE d \in 1..10 : Digits[d] = c) - 1

RECURSIVE StripZeros(_)
StripZeros(chars) ==
    IF Len(chars) > 1 /\ Head(chars) = "0" THEN StripZeros(Tail(chars)) ELSE chars

U32MaxText == <<"4", "2", "9", "4", "9", "6", "7", "2", "9", "5">>

\* the digits denote an integer of at most 2^32 - 1
InU32(chars) ==
    LET c == StripZeros(chars)
    IN  \/ Len(c) < Len(U32MaxText)
        \/ /\ Len(c) = Len(U32MaxText)
           /\ \/ c = U32MaxText
              \/ \E k \in 1..Len(c) :
                    /\ \A j \in 1..(k - 1) : c[j] = U32MaxText[j]
                    /\ DigitOf(c[k]) < DigitOf(U32MaxText[k])

\* the decimal text of a u32 given by its halves
RECURSIVE Decimal(_)
Decimal(n) ==
    LET t == (n.hi % 10) * Half + n.lo
        q == [hi |-> n.hi \div 10, lo |-> t \div 10]
    IN  IF q.hi = 0 /\ q.lo = 0
        THEN <<Digits[(t % 10) + 1]>>
        ELSE Append(Decimal(q), Digits[(t % 10) + 1])

\* the claim as stated: <n> is a non-empty string of decimal digits
C26_PolicyFromDecimalText ==
    pc = "done" =>
        IF IsDigits(PolicyNumber) /\ InU32(PolicyNumber)
        THEN /\ ret.ok
             /\ ret.kind = PolicyKind
             /\ Decimal(ret.n) = StripZeros(PolicyNumber)
        ELSE ~ret.ok

\* the number without the one '+' that may precede its digits
Unsigned(chars) ==
    IF chars # <<>> /\ Head(chars) = "+" THEN Tail(chars) ELSE chars

\* C26 as amended: <n> is a non-empty string of decimal digits, one '+' may
\* precede it
C26_PolicyFromSignedDecimalText ==
    pc = "done" =>
        IF IsDigits(Unsigned(PolicyNumber)) /\ InU32(Unsigned(PolicyNumber))
        THEN /\ ret.ok
             /\ ret.kind = PolicyKind
             /\ Decimal(ret.n) = StripZeros(Unsigned(PolicyNumber))
        ELSE ~ret.ok

C26_Witness ==
    /\ pc = "done"
    /\ ret.ok
    /\ ret.kind = "PerMachine"
    /\ ret.n = [hi |-> 65535, lo |-> 65535]
    /\ Head(str) = "+"

-----------------------------------------------------------------------------
(* C27: a machine's bucket list holds each distinct truncated-millisecond   *)
(* latency of its pairs exactly once, in first-seen order when its own      *)
(* addresses are visited in enumeration order and, for each, the peers in   *)
(* increasing global index; bucket indices are the 1-based positions in     *)
(* that list, not sorted by value, and the tc entries are emitted in that   *)
(* order.                                                                   *)

\* the pairs of the last config: <<p, o>> is the p-th own address and the
\* peer of global index o
Visits ==
    {v \in (DOMAIN LastConfig.addresses) \X (0..(Len(addresses) - 1)) :
        v[2] # GlobalIndex(LastConfig.addresses[v[1]])}

VisitMillis(v) ==
    matrix.latencies[matrix.dimension * GlobalIndex(LastConfig.addresses[v[1]])
                     + v[2] + 1] \div 1000

Before(v, w) == v[1] < w[1] \/ (v[1] = w[1] /\ v[2] < w[2])

FirstVisit(millis) ==
    CHOOSE v \in Visits :
        /\ VisitMillis(v) = millis
        /\ \A w \in Visits : VisitMillis(w) = millis => w = v \/ Before(v, w)

NetemLines(cfg, dev) ==
    {q \in DOMAIN cfg.tc_commands :
        cfg.tc_commands[q].op = "qdisc_netem" /\ cfg.tc_commands[q].dev = dev}

C27_BucketsInFirstSeenOrder ==
    (Pushed /\ PlanDistinct) =>
        LET tc == LastConfig.tc_commands
        IN  /\ Range(latencies_buckets) = {VisitMillis(v) : v \in Visits}
            /\ \A i, j \in DOMAIN latencies_buckets :
                  i < j => /\ latencies_buckets[i] # latencies_buckets[j]
                           /\ Before(FirstVisit(latencies_buckets[i]),
                                     FirstVisit(latencies_buckets[j]))
            /\ \A dev \in {"lo", interface(LastConfig.machine)} :
                  /\ {tc[q].classid : q \in NetemLines(LastConfig, dev)}
                        = DOMAIN latencies_buckets
                  /\ \A q \in NetemLines(LastConfig, dev) :
                        tc[q].delay = latencies_buckets[tc[q].classid]
                  /\ \A q1, q2 \in NetemLines(LastConfig, dev) :
                        q1 < q2 => tc[q1].classid < tc[q2].classid

\* C27 witness: a config of several own addresses whose bucket list is not in
\* increasing order of latency
C27_Witness ==
    /\ Pushed
    /\ PlanDistinct
    /\ Len(LastConfig.addresses) >= 4
    /\ Len(latencies_buckets) >= 3
    /\ \E i, j \in DOMAIN latencies_buckets :
          i < j /\ latencies_buckets[i] > latencies_buckets[j]

-----------------------------------------------------------------------------
(* C28: during up, across machines the three steps are independent and      *)
(* interleave freely: one machine can have started clean (or apply) while   *)
(* another machine of the job has not yet finished build_helper (or clean). *)
(* Stated on the states of a step: once the task of one machine has         *)
(* finished with success and none has failed, the command can go on to the  *)
(* next step, whether or not the tasks of the other machines have finished. *)

C28_StepsInterleaveAcrossMachines ==
    (/\ cmd = "up"
     /\ pc \in {"build", "clean"}
     /\ phase = pc
     /\ \E p \in DOMAIN tasks : tasks[p] = "ok"
     /\ \A p \in DOMAIN tasks : tasks[p] \in {"spawned", "running", "ok"})
        => ENABLED Join

-----------------------------------------------------------------------------
(* C29: during up, if helper-image build or clean returns an error for any  *)
(* machine, up returns an error (it aborts instead when a task of the step  *)
(* has panicked) and the configuration script is not run on any machine of  *)
(* the job; after an apply failure up runs no further clean.                *)

Failed == {p \in DOMAIN tasks : tasks[p] \in {"err_spawn", "err_exit"}}

Ended(step, machine) ==
    \E q \in ProcsOf(step, machine) : q.exit # "running"

C29_FailedStepStopsUp ==
    /\ [](cmd = "up" =>
            /\ (\E q \in procs : q.step = "configure") =>
                  \A k \in DOMAIN machines :
                      /\ \A q \in ProcsOf("build", machines[k]) : q.exit = "0"
                      /\ Ended("build", machines[k])
                      /\ Ended("clean", machines[k])
            /\ pc = "err" => ~ENABLED Next)
    /\ [][cmd = "up" =>
            /\ (pc \in {"build", "clean"} /\ Failed # {}) =>
                  \/ pc' = pc
                  \/ pc' = "err" /\ error' # NoError
                  \/ pc' = "panic" /\ \E p \in DOMAIN tasks : tasks[p] = "panicked"
            /\ (\E q \in procs : q.step = "configure") =>
                  {q \in procs' : q.step = "clean"} = {q \in procs : q.step = "clean"}]_vars

\* C29 witness: up has returned the error of a clean task that could not
\* spawn its process on one machine while clean ran on the other; no apply
C29_Witness ==
    /\ cmd = "up"
    /\ pc = "err"
    /\ Len(machines) = 2
    /\ error # NoError
    /\ \A k \in DOMAIN machines : Ended("build", machines[k])
    /\ Ended("clean", machines[1])
    /\ ProcsOf("clean", machines[2]) = {}
    /\ ~\E q \in procs : q.step = "configure"

-----------------------------------------------------------------------------
(* C30: for any finite list of machines and any limit L >= 1 (or 0 =        *)
(* unlimited), if every task terminates then for_each_with_limit            *)
(* terminates: every permit is released when its task ends, every waiting   *)
(* task eventually acquires a permit, and when no task fails the result     *)
(* contains exactly one entry per input machine.                            *)

\* for_each has returned (or panicked on a limit that is no number, before
\* it calls for_each_with_limit)
ForEachEnded == pc \in {"done", "err", "panic"}

\* the permits that are out are those of the running tasks; all are back
\* when the fan-out has returned
PermitsReleased ==
    /\ pc = "for_each_poll" => sem + Cardinality(Running) = permits(limit)
    /\ pc \in {"done", "err"} => sem = permits(limit)

\* one entry per position of the input list
ResultsComplete ==
    pc = "done" =>
        /\ Len(results) = Len(machines)
        /\ \A m \in Machines :
              Cardinality({k \in DOMAIN results : results[k] = m})
                  = Cardinality({k \in DOMAIN machines : machines[k] = m})

Waiting(p) == p \in DOMAIN futures /\ futures[p] = "pending"

Acquired(p) == p \in DOMAIN futures /\ futures[p] = "running"

\* the claim as stated
C30_ForEachTerminatesAllAcquire ==
    /\ <>ForEachEnded
    /\ []PermitsReleased
    /\ []ResultsComplete
    /\ \A p \in 1..(MaxMachines + 1) : Waiting(p) ~> Acquired(p)

\* C30 as amended: a waiting task eventually acquires a permit unless the
\* fan-out returns the error of a failed task first
C30_ForEachTerminates ==
    /\ <>ForEachEnded
    /\ []PermitsReleased
    /\ []ResultsComplete
    /\ \A p \in 1..(MaxMachines + 1) : Waiting(p) ~> (Acquired(p) \/ pc = "err")

\* C30 witness: with one permit for two machines the second task has waited,
\* got the permit back from the first and both results were collected
C30_Witness ==
    /\ pc = "done"
    /\ limit = 1
    /\ Len(machines) = 2
    /\ Len(results) = 2
    /\ sem = 1

====
